---------------------------- MODULE Spec2Model ----------------------------
(***************************************************************************)
(* The ingestion endpoint of Phenomeny Review (src/app/api/ingest/route.ts), *)
(* the articles routes and the published list of the home page, as a state  *)
(* machine over the Supabase tables they read and write.                    *)
(*                                                                         *)
(* Every awaited store call, network fetch and LLM call of POST is one      *)
(* step of a request; what the code computes between two awaits belongs to  *)
(* the step that follows the first.  Strings whose characters the code      *)
(* inspects (entity names, slugs) are sequences of one-character strings.   *)
(***************************************************************************)
EXTENDS Integers, Sequences, FiniteSets, TLC

Null == "null"

(***************************************************************************)
(* Characters and strings                                                   *)
(***************************************************************************)
UpperLetters ==
  <<"A", "B", "C", "D", "E", "F", "G", "H", "I", "J", "K", "L", "M",
    "N", "O", "P", "Q", "R", "S", "T", "U", "V", "W", "X", "Y", "Z">>

LowerLetters ==
  <<"a", "b", "c", "d", "e", "f", "g", "h", "i", "j", "k", "l", "m",
    "n", "o", "p", "q", "r", "s", "t", "u", "v", "w", "x", "y", "z">>

Digits == {"0", "1", "2", "3", "4", "5", "6", "7", "8", "9"}

Range(f) == {f[i] : i \in DOMAIN f}

IsUpper(c) == c \in Range(UpperLetters)
IsLower(c) == c \in Range(LowerLetters)
IsDigit(c) == c \in Digits
IsSpace(c) == c = " "
\* \w of a JavaScript regular expression
IsWordChar(c) == IsUpper(c) \/ IsLower(c) \/ IsDigit(c) \/ c = "_"

LowerChar(c) ==
  IF IsUpper(c)
    THEN LowerLetters[CHOOSE i \in DOMAIN UpperLetters : UpperLetters[i] = c]
    ELSE c

UpperChar(c) ==
  IF IsLower(c)
    THEN UpperLetters[CHOOSE i \in DOMAIN LowerLetters : LowerLetters[i] = c]
    ELSE c

\* String.prototype.toLowerCase
toLowerCase(s) == [i \in DOMAIN s |-> LowerChar(s[i])]

RECURSIVE TrimLeft(_)
TrimLeft(s) ==
  IF s # <<>> /\ IsSpace(Head(s)) THEN TrimLeft(Tail(s)) ELSE s

RECURSIVE TrimRight(_)
TrimRight(s) ==
  IF s # <<>> /\ IsSpace(s[Len(s)])
    THEN TrimRight(SubSeq(s, 1, Len(s) - 1))
    ELSE s

\* String.prototype.trim
trim(s) == TrimLeft(TrimRight(s))

\* s.replace(/\b\w/g, c => c.toUpperCase()): the first character of every
\* run of word characters is upper-cased
CapitalizeWords(s) ==
  [i \in DOMAIN s |->
     IF IsWordChar(s[i]) /\ (i = 1 \/ ~IsWordChar(s[i - 1]))
       THEN UpperChar(s[i])
       ELSE s[i]]

EndsWith(s, t) ==
  Len(t) <= Len(s) /\ SubSeq(s, Len(s) - Len(t) + 1, Len(s)) = t

\* s.replace(/[,.\s]+$/, "")
RECURSIVE StripTrailingPunct(_)
StripTrailingPunct(s) ==
  IF s # <<>> /\ s[Len(s)] \in {",", ".", " "}
    THEN StripTrailingPunct(SubSeq(s, 1, Len(s) - 1))
    ELSE s

\* s.replace(/\s+/g, rep): every maximal run of white space becomes rep
RECURSIVE ReplaceSpaceRuns(_, _)
ReplaceSpaceRuns(s, rep) ==
  IF s = <<>> THEN <<>>
  ELSE IF IsSpace(Head(s))
    THEN rep \o ReplaceSpaceRuns(TrimLeft(s), rep)
    ELSE <<Head(s)>> \o ReplaceSpaceRuns(Tail(s), rep)

\* s.replace(/-+/g, "-")
RECURSIVE CollapseHyphens(_)
CollapseHyphens(s) ==
  IF Len(s) < 2 THEN s
  ELSE IF s[1] = "-" /\ s[2] = "-"
    THEN CollapseHyphens(Tail(s))
    ELSE <<Head(s)>> \o CollapseHyphens(Tail(s))

\* s.replace(/^-|-$/g, "")
StripEdgeHyphens(s) ==
  LET a == IF s # <<>> /\ Head(s) = "-" THEN Tail(s) ELSE s
  IN  IF a # <<>> /\ a[Len(a)] = "-" THEN SubSeq(a, 1, Len(a) - 1) ELSE a

\* the words of s: its maximal runs of word characters (what \b delimits)
RECURSIVE WordsOf(_, _)
WordsOf(s, cur) ==
  IF s = <<>> THEN (IF cur = <<>> THEN {} ELSE {cur})
  ELSE IF IsWordChar(Head(s))
    THEN WordsOf(Tail(s), Append(cur, Head(s)))
    ELSE (IF cur = <<>> THEN {} ELSE {cur}) \cup WordsOf(Tail(s), <<>>)

(***************************************************************************)
(* Article slugs (route.ts 143-152, articles/route.ts generateSlug)         *)
(***************************************************************************)
\* s.replace(/[^a-z0-9\s-]/g, "")
RemoveNonSlugChars(s) ==
  SelectSeq(s, LAMBDA c : IsLower(c) \/ IsDigit(c) \/ IsSpace(c) \/ c = "-")

\* generateSlug of the articles route: the chain without a length limit
generateSlugOfTitle(title) ==
  StripEdgeHyphens(
    CollapseHyphens(
      ReplaceSpaceRuns(RemoveNonSlugChars(trim(toLowerCase(title))),
                       <<"-">>)))

\* the argument of .slice(0, 80)
SlugLimit == 80

\* generateSlug of the ingest route: the same chain, then .slice(0, 80)
generateSlug(title) ==
  LET s == generateSlugOfTitle(title)
  IN  SubSeq(s, 1, IF Len(s) < SlugLimit THEN Len(s) ELSE SlugLimit)

DigitChars == <<"0", "1", "2", "3", "4", "5", "6", "7", "8", "9">>

\* the decimal digits of a counter, as a template literal prints it
RECURSIVE Decimal(_)
Decimal(n) ==
  IF n < 10 THEN <<DigitChars[n + 1]>>
            ELSE Decimal(n \div 10) \o <<DigitChars[(n % 10) + 1]>>

\* `${baseSlug}-${counter}`
Suffixed(baseSlug, counter) == baseSlug \o <<"-">> \o Decimal(counter)

StartsWith(s, t) == Len(t) <= Len(s) /\ SubSeq(s, 1, Len(t)) = t

(***************************************************************************)
(* Entity names (route.ts 421-493, 530-536)                                 *)
(***************************************************************************)
ALLOWED_ENTITY_TYPES ==
  {"company", "model", "country", "lab", "regulator", "person",
   "institution", "event", "venue"}

GENERIC_ENTITY_BLOCKLIST ==
  { <<"a", "i">>,
    <<"a", "r", "t", "i", "f", "i", "c", "i", "a", "l", " ",
      "i", "n", "t", "e", "l", "l", "i", "g", "e", "n", "c", "e">>,
    <<"t", "e", "c", "h", "n", "o", "l", "o", "g", "y">>,
    <<"t", "e", "c", "h">>,
    <<"i", "n", "d", "u", "s", "t", "r", "y">>,
    <<"g", "o", "v", "e", "r", "n", "m", "e", "n", "t">>,
    <<"c", "o", "m", "p", "a", "n", "y">>,
    <<"c", "o", "r", "p", "o", "r", "a", "t", "i", "o", "n">>,
    <<"s", "t", "a", "r", "t", "u", "p">>,
    <<"p", "l", "a", "t", "f", "o", "r", "m">>,
    <<"s", "y", "s", "t", "e", "m">>,
    <<"m", "o", "d", "e", "l">>,
    <<"r", "e", "s", "e", "a", "r", "c", "h">>,
    <<"i", "n", "s", "t", "i", "t", "u", "t", "e">> }

\* the single words the keyword regular expressions look for between word
\* boundaries (the two-word alternatives "artificial intelligence" and
\* "convention center" only match names that also hold a one-word alternative
\* of the same pattern, or are not reachable from the names drawn here)
EVENT_KEYWORDS ==
  { <<"a", "i">>, <<"s", "u", "m", "m", "i", "t">>, <<"e", "x", "p", "o">>,
    <<"c", "o", "n", "f", "e", "r", "e", "n", "c", "e">> }

INSTITUTION_KEYWORDS ==
  { <<"u", "n", "i", "v", "e", "r", "s", "i", "t", "y">>,
    <<"i", "n", "s", "t", "i", "t", "u", "t", "e">>, <<"l", "a", "b">>,
    <<"r", "e", "s", "e", "a", "r", "c", "h">> }

REJECTED_PATTERNS ==
  { <<"p", "a", "r", "t", "y">>, <<"p", "a", "r", "t", "i", "e", "s">>,
    <<"w", "i", "n", "g">>, <<"w", "i", "n", "g", "s">> }

VENUE_ONLY_PATTERNS ==
  { <<"a", "r", "e", "n", "a">>, <<"s", "t", "a", "d", "i", "u", "m">>,
    <<"h", "a", "l", "l">>, <<"c", "e", "n", "t", "e", "r">>,
    <<"c", "e", "n", "t", "r", "e">> }

\* the alternatives of CORPORATE_SUFFIXES, lower-cased (the pattern is /i)
CORPORATE_SUFFIXES ==
  { <<"i", "n", "c">>, <<"i", "n", "c", ".">>,
    <<"c", "o", "r", "p", "o", "r", "a", "t", "i", "o", "n">>,
    <<"c", "o", "r", "p">>, <<"c", "o", "r", "p", ".">>,
    <<"l", "t", "d">>, <<"l", "t", "d", ".">>,
    <<"l", "l", "c">>, <<"p", "l", "c">> }

\* name.replace(/\s+(Inc\.?|Corporation|Corp\.?|Ltd\.?|LLC|Plc|PLC)$/i, ""):
\* a suffix at the very end, together with the white space before it
StripCorporateSuffix(s) ==
  LET low  == toLowerCase(s)
      hits == {t \in CORPORATE_SUFFIXES :
                 /\ EndsWith(low, t)
                 /\ Len(s) > Len(t)
                 /\ IsSpace(s[Len(s) - Len(t)])}
  IN  IF hits = {} THEN s
      ELSE LET t == CHOOSE x \in hits : \A y \in hits : Len(y) <= Len(x)
           IN  TrimRight(SubSeq(s, 1, Len(s) - Len(t)))

normalizeEntityName(raw) ==
  LET n1 == trim(raw)
      n2 == CapitalizeWords(toLowerCase(n1))
      n3 == StripCorporateSuffix(n2)
      n4 == StripTrailingPunct(n3)
  IN  trim(ReplaceSpaceRuns(n4, <<" ">>))

\* the slug expression repeated at route.ts 530-536, 630-636, 742-743, 920-926
slugOf(name) ==
  LET s1 == trim(toLowerCase(name))
      s2 == ReplaceSpaceRuns(s1, <<"-">>)
      s3 == SelectSeq(s2, LAMBDA c : IsLower(c) \/ IsDigit(c) \/ c = "-")
  IN  StripEdgeHyphens(CollapseHyphens(s3))

\* passesContextualFilter(entity, articleCategory, articleContent); aiContext
\* stands for AI_CATEGORIES.includes(category) && AI_KEYWORDS.test(content)
passesContextualFilter(name, type, aiContext) ==
  LET words == WordsOf(toLowerCase(trim(name)), <<>>)
  IN  /\ words \cap REJECTED_PATTERNS = {}
      /\ (type # "venue" => words \cap VENUE_ONLY_PATTERNS = {})
      /\ (type = "person" => aiContext)
      /\ (type = "event" => words \cap EVENT_KEYWORDS # {})
      /\ (type = "institution" => words \cap INSTITUTION_KEYWORDS # {})


(***************************************************************************)
(* Event types (route.ts 871-914)                                           *)
(***************************************************************************)
ALLOWED_EVENT_TYPES ==
  { <<"r", "e", "l", "e", "a", "s", "e">>,
    <<"u", "p", "g", "r", "a", "d", "e">>,
    <<"s", "e", "c", "u", "r", "i", "t", "y">>,
    <<"r", "e", "g", "u", "l", "a", "t", "i", "o", "n">>,
    <<"f", "u", "n", "d", "i", "n", "g">>,
    <<"p", "a", "r", "t", "n", "e", "r", "s", "h", "i", "p">>,
    <<"l", "e", "a", "d", "e", "r", "s", "h", "i", "p">>,
    <<"r", "e", "s", "e", "a", "r", "c", "h">>,
    <<"i", "n", "f", "r", "a", "s", "t", "r", "u", "c", "t", "u", "r", "e">>,
    <<"o", "t", "h", "e", "r">> }

EVENT_TYPE_KEYWORD_MAP ==
  << <<<<"r", "e", "l", "e", "a", "s", "e">>,
       <<"r", "e", "l", "e", "a", "s", "e">>>>,
     <<<<"l", "a", "u", "n", "c", "h">>,
       <<"r", "e", "l", "e", "a", "s", "e">>>>,
     <<<<"u", "p", "g", "r", "a", "d", "e">>,
       <<"u", "p", "g", "r", "a", "d", "e">>>>,
     <<<<"u", "p", "d", "a", "t", "e">>,
       <<"u", "p", "g", "r", "a", "d", "e">>>>,
     <<<<"s", "e", "c", "u", "r", "i", "t", "y">>,
       <<"s", "e", "c", "u", "r", "i", "t", "y">>>>,
     <<<<"b", "r", "e", "a", "c", "h">>,
       <<"s", "e", "c", "u", "r", "i", "t", "y">>>>,
     <<<<"r", "e", "g", "u", "l", "a", "t", "i", "o", "n">>,
       <<"r", "e", "g", "u", "l", "a", "t", "i", "o", "n">>>>,
     <<<<"p", "o", "l", "i", "c", "y">>,
       <<"r", "e", "g", "u", "l", "a", "t", "i", "o", "n">>>>,
     <<<<"g", "o", "v", "e", "r", "n", "m", "e", "n", "t">>,
       <<"r", "e", "g", "u", "l", "a", "t", "i", "o", "n">>>>,
     <<<<"f", "u", "n", "d", "i", "n", "g">>,
       <<"f", "u", "n", "d", "i", "n", "g">>>>,
     <<<<"i", "n", "v", "e", "s", "t", "m", "e", "n", "t">>,
       <<"f", "u", "n", "d", "i", "n", "g">>>>,
     <<<<"p", "a", "r", "t", "n", "e", "r", "s", "h", "i", "p">>,
       <<"p", "a", "r", "t", "n", "e", "r", "s", "h", "i", "p">>>>,
     <<<<"c", "o", "l", "l", "a", "b", "o", "r", "a", "t", "i", "o", "n">>,
       <<"p", "a", "r", "t", "n", "e", "r", "s", "h", "i", "p">>>>,
     <<<<"l", "e", "a", "d", "e", "r", "s", "h", "i", "p">>,
       <<"l", "e", "a", "d", "e", "r", "s", "h", "i", "p">>>>,
     <<<<"c", "e", "o">>,
       <<"l", "e", "a", "d", "e", "r", "s", "h", "i", "p">>>>,
     <<<<"r", "e", "s", "e", "a", "r", "c", "h">>,
       <<"r", "e", "s", "e", "a", "r", "c", "h">>>>,
     <<<<"p", "a", "p", "e", "r">>,
       <<"r", "e", "s", "e", "a", "r", "c", "h">>>>,
     <<<<"i", "n", "f", "r", "a", "s", "t", "r", "u", "c", "t", "u", "r", "e">>,
       <<"i", "n", "f", "r", "a", "s", "t", "r", "u", "c", "t", "u", "r", "e">>>>,
     <<<<"d", "a", "t", "a", " ", "c", "e", "n", "t", "e", "r">>,
       <<"i", "n", "f", "r", "a", "s", "t", "r", "u", "c", "t", "u", "r", "e">>>> >>

EventOther == <<"o", "t", "h", "e", "r">>

\* String.prototype.includes
Includes(s, t) ==
  \E i \in 0..(Len(s) - Len(t)) : SubSeq(s, i + 1, i + Len(t)) = t

\* the raw value stored as it came
normalizeEventTypeRaw(raw) == raw

\* raw is <<>> for a missing (undefined) or empty event_type: !raw
normalizeEventType(raw) ==
  IF raw = <<>> THEN EventOther
  ELSE LET lower == trim(toLowerCase(raw))
           hits  == {k \in DOMAIN EVENT_TYPE_KEYWORD_MAP :
                       Includes(lower, EVENT_TYPE_KEYWORD_MAP[k][1])}
       IN  IF lower \in ALLOWED_EVENT_TYPES THEN lower
           ELSE IF hits = {} THEN EventOther
           ELSE EVENT_TYPE_KEYWORD_MAP[
                  CHOOSE k \in hits : \A j \in hits : k <= j][2]

FIRST_APPEARANCE ==
  <<"f", "i", "r", "s", "t", "_", "a", "p", "p", "e", "a", "r", "a", "n", "c", "e">>

ALLOWED_PREDICATES ==
  {"partnered_with", "acquired", "invested_in", "competes_with", "developed",
   "regulates", "funded_by", "subsidiary_of", "spun_off", "collaborated_with",
   "supplies_to", "licensed_from"}

(***************************************************************************)
(* Bounds of the model and the inputs requests are drawn from               *)
(***************************************************************************)
MaxRequests == 2
MaxEntities == 2
MaxTriples == 2
MaxDay == 2
MaxFaults == 1
MaxArticles == 3

\* the only request slot the sequential specifications use
Reqs == {1}

Secret == "s3cret"
\* the value of process.env.ADMIN_SECRET: unset, empty or set
AdminSecrets == {Null, "", Secret}
\* the admin-auth cookie of a request: absent, empty, wrong or right
Cookies == {Null, "", "guess", Secret}

Urls == {"https://a.example/1", "https://b.example/2"}
\* request bodies: not JSON, JSON without a url, a url that new URL() rejects,
\* or a well-formed url
Bodies ==
  {[kind |-> k, url |-> Null] : k \in {"badjson", "nourl", "badurl"}}
    \cup {[kind |-> "ok", url |-> u] : u \in Urls}

\* titles: two with the base slug "ab", one whose base slug is the slug a
\* second "ab" gets, and one with an empty base slug
TitleAb == <<"A", "b">>
TitleAbBang == <<" ", "a", "b", "!">>
TitleAb2 == <<"a", "b", " ", "2">>
TitleBang == <<"!">>

\* parsed.title: the title the extractor gives the page at url
ParsedTitle(url) == IF url = "https://a.example/1" THEN TitleAb ELSE TitleAbBang

validStatuses == {"draft", "published", "scheduled"}

\* bodies of POST /api/articles: title is <<>> when missing, status is Null
\* when missing, publish_at is 0 when missing
TitleBodies ==
  {[title |-> t, hasContent |-> TRUE, status |-> Null, publish_at |-> 0] :
     t \in {<<>>, TitleAb, TitleAbBang, TitleAb2, TitleBang}}

StatusBodies ==
  {[title |-> TitleAb, hasContent |-> c, status |-> st, publish_at |-> d] :
     c \in BOOLEAN,
     st \in validStatuses \cup {"archived"},
     d \in 0..MaxDay}

\* bodies of PATCH /api/articles/[id] that name status or publish_at:
\* hasPublishAt is FALSE when publish_at is undefined, and publish_at is 0
\* when it is null or undefined
PatchBodies ==
  {[status |-> "published", hasPublishAt |-> FALSE, publish_at |-> 0],
   [status |-> "draft", hasPublishAt |-> FALSE, publish_at |-> 0],
   [status |-> "scheduled", hasPublishAt |-> TRUE, publish_at |-> 1],
   [status |-> "scheduled", hasPublishAt |-> FALSE, publish_at |-> 0],
   [status |-> "archived", hasPublishAt |-> FALSE, publish_at |-> 0],
   [status |-> Null, hasPublishAt |-> TRUE, publish_at |-> 0],
   [status |-> Null, hasPublishAt |-> FALSE, publish_at |-> 0]}

\* lengths of the sanitized text of a fetched page
TextLens == {40, 100, 20000}
MinTextLen == 100
MaxTextLen == 15000

NameAb == <<"A", "b">>
NameAbInc == <<"a", "b", " ", "I", "n", "c", ".">>
NameCd == <<"C", "d">>
NameEf == <<"E", "f">>
NameAI == <<"A", "I">>
\* a name no entity list holds
NameGh == <<"G", "h">>

\* what the extractor may put in an element of "entities": an object with a
\* string name and a type, an object whose name is a number (42), or null
WellFormedCandidates ==
  {[kind |-> "object", name |-> n, type |-> t] :
     n \in {NameAb, NameCd}, t \in {"company", "model"}}
    \cup {[kind |-> "object", name |-> NameAbInc, type |-> "company"],
          [kind |-> "object", name |-> NameAI, type |-> "gadget"]}

MalformedCandidates ==
  {[kind |-> "numname", name |-> <<>>, type |-> "company"],
   [kind |-> "null", name |-> <<>>, type |-> Null]}

Candidates == WellFormedCandidates \cup MalformedCandidates

EntityLists ==
  UNION {[1..n -> Candidates] : n \in 0..MaxEntities}

\* What a fetched page is about.  A page about entities names up to
\* MaxEntities candidates, and the extractors find no relationship and no
\* event in it; a page about relationships names three companies and up to
\* MaxTriples triples; a page about an event names one company and the event.
PageKinds == {"entities", "relationships", "timeline"}

Company(n) == [kind |-> "object", name |-> n, type |-> "company"]

EntityListsOf(page) ==
  CASE page = "entities" -> EntityLists
    [] page = "relationships" ->
         {<<Company(NameAb), Company(NameCd), Company(NameEf)>>}
    [] page = "timeline" -> {<<Company(NameAb)>>}

\* a confidence as the extractor sends it: a number, in percent, or something
\* that is not a number
NotANumber == [isNumber |-> FALSE, value |-> 0]
RawConfidences == {NotANumber, [isNumber |-> TRUE, value |-> 150]}

\* elements of the relationship extractor's array
Triple(s, p, o, c) ==
  [kind |-> "object", subject |-> s, predicate |-> p, object |-> o,
   confidence |-> c]

NullTriple ==
  [kind |-> "null", subject |-> <<>>, predicate |-> Null, object |-> <<>>,
   confidence |-> NotANumber]

\* no element: the loop over the array has taken none yet
NoTriple == [NullTriple EXCEPT !.kind = "none"]

\* two objects for one (subject, predicate), a second subject, a predicate
\* outside the vocabulary, an object that is no entity of the batch, and null
TripleInputs ==
  {Triple(NameAb, "funded_by", NameCd, [isNumber |-> TRUE, value |-> 150]),
   Triple(NameAb, "funded_by", NameEf, [isNumber |-> TRUE, value |-> 150]),
   Triple(NameCd, "funded_by", NameAb, NotANumber),
   Triple(NameAb, "owns", NameCd, NotANumber),
   Triple(NameAb, "funded_by", NameGh, NotANumber),
   NullTriple}

MaxTriplesOf(page) == IF page = "relationships" THEN MaxTriples ELSE 0

\* parsed.timeline_event: null, an object naming an entity, or an object
\* whose entity is not a string
NoEvent ==
  [kind |-> "null", entity |-> <<>>, date |-> 0, title |-> Null,
   event_type |-> <<>>]

\* values of timeline_event.event_type: a keyword in capitals, a member of
\* the vocabulary in capitals and with a space, a value with two keywords,
\* and a value with none
EvLaunch == <<"L", "a", "u", "n", "c", "h">>
EvFunding == <<"F", "u", "n", "d", "i", "n", "g", " ">>
EvPolicyUpdate ==
  <<"P", "o", "l", "i", "c", "y", " ", "u", "p", "d", "a", "t", "e">>
EvMerger == <<"M", "e", "r", "g", "e", "r">>

RawEventTypes == {<<>>, EvLaunch, EvFunding, EvPolicyUpdate, EvMerger}

TimelineInputs ==
  {[kind |-> "object", entity |-> e, date |-> 1, title |-> "t1",
    event_type |-> et] :
     e \in {NameAb},
     et \in RawEventTypes}
    \cup {[NoEvent EXCEPT !.kind = "numentity"]}

TimelineInputsOf(page) ==
  IF page = "timeline" THEN TimelineInputs ELSE {NoEvent}

(***************************************************************************)
(* State                                                                    *)
(***************************************************************************)
VARIABLES
  adminSecret,           \* process.env.ADMIN_SECRET
  today,                 \* the date new Date() reports
  nreq,                  \* requests received so far
  faults,                \* store failures that may still be injected
  articleSeq,            \* number of ids the store has given to articles
  home,                  \* fetchArticles of the home page: locals and position
  claimReview,           \* claim id -> the columns the claim review wrote
  reviewReq,             \* the last claim-review request and its response
  articles,              \* table articles, in order of insertion
  entities,              \* table entities
  article_entities,      \* join table, a set of <<article_id, entity_id>>
  entity_relationships,  \* table entity_relationships
  claims,                \* table claims
  timelines,             \* table timelines
  ingestion_logs,        \* table ingestion_logs
  req                    \* per request slot: the locals of POST and its position

factTables ==
  <<articles, entities, article_entities, entity_relationships, claims,
    timelines>>

store == <<factTables, ingestion_logs>>

\* the state of the claim review
reviews == <<claimReview, reviewReq>>

site == <<articleSeq, home, reviews>>

vars == <<adminSecret, today, nreq, faults, site, store, req>>

\* Row ids are the positive integers; 0 stands for null or undefined where an
\* id, a date, an HTTP status or a percentage is expected.
NoTimeline ==
  [entityId |-> 0, title |-> Null, eventDate |-> 0, eventType |-> <<>>,
   confidence |-> 0]

\* fetchArticles when no read of the home page is in flight
IdleHome == [pc |-> "idle", nowISO |-> 0, data |-> <<>>, due |-> {}]

\* no claim-review request yet
IdleReview ==
  [n |-> 0, cookie |-> Null, id |-> 0, verification_status |-> Null,
   http |-> 0]

\* no claim was reviewed: every claim has the defaults of its columns
NoReview == claimReview = <<>> /\ reviewReq = IdleReview

IdleReq ==
  [pc |-> "idle", cookie |-> Null, url |-> Null, page |-> Null,
   parsedEntities |-> <<>>, articleId |-> 0,
   i |-> 0, entityId |-> 0,
   firstCompanyId |-> 0, modelEntityIds |-> <<>>,
   nTriples |-> 0, subjectId |-> 0, objectId |-> 0, predicate |-> Null,
   rel |-> NoTriple,
   confidence |-> 0, ids |-> {}, maxRevision |-> 0,
   relBase |-> 0,
   tl |-> NoTimeline, ret |-> Null, rawEventType |-> <<>>,
   logUrl |-> Null, logStatus |-> Null,
   http |-> 0, success |-> FALSE, existing_id |-> 0,
   \* history of the request, for the properties
   outcome |-> Null, fetched |-> FALSE, extracted |-> FALSE, logBase |-> 0,
   prevCurrent |-> {}]

Init ==
  /\ adminSecret \in AdminSecrets
  /\ today = 1
  /\ nreq = 0
  /\ faults = 0
  /\ articleSeq = 0
  /\ home = IdleHome /\ NoReview
  /\ articles = <<>>
  /\ entities = <<>>
  /\ article_entities = {}
  /\ entity_relationships = <<>>
  /\ claims = <<>>
  /\ timelines = <<>>
  /\ ingestion_logs = <<>>
  /\ req = [r \in Reqs |-> IdleReq]

\* one request remains, and MaxFaults of its store calls may fail
InitFail ==
  /\ adminSecret = Secret
  /\ today = 1
  /\ nreq = MaxRequests - 1
  /\ faults = MaxFaults
  /\ articleSeq = 0
  /\ home = IdleHome /\ NoReview
  /\ articles = <<>>
  /\ entities = <<>>
  /\ article_entities = {}
  /\ entity_relationships = <<>>
  /\ claims = <<>>
  /\ timelines = <<>>
  /\ ingestion_logs = <<>>
  /\ req = [r \in Reqs |-> IdleReq]

Max(S) == CHOOSE x \in S : \A y \in S : y <= x

\* the results a fallible store call may have: it succeeds, or, while
\* failures remain to inject, returns an error
CallResults == IF faults > 0 THEN {TRUE, FALSE} ELSE {TRUE}

Charge(ok) == faults' = IF ok THEN faults ELSE faults - 1


Set(r, q) == req' = [req EXCEPT ![r] = q]

(***************************************************************************)
(* How a request ends (route.ts 206-218, 224-263, 950-966)                  *)
(***************************************************************************)
\* a response sent without an ingestion log row: 401 and 400 input errors
Reply(q, http, outcome) ==
  [q EXCEPT !.pc = "done", !.http = http, !.success = FALSE,
            !.outcome = outcome]

\* await logIngestion(url, status, ...); return NextResponse.json(..., {status})
LogAndReply(q, logUrl, logStatus, http, success, outcome) ==
  [q EXCEPT !.pc = "log", !.page = Null, !.rel = NoTriple, !.logUrl = logUrl, !.logStatus = logStatus,
            !.http = http, !.success = success, !.outcome = outcome]

\* a pipeline-fatal failure of the request
Fail(q, logStatus, http, outcome) ==
  LogAndReply(q, q.url, logStatus, http, FALSE, outcome)

\* a catch that responds without a log row
ThrowUnlogged(q) == Reply(q, 500, "exception")

\* the outer catch: no code sets err._sourceUrl, so source_url is "unknown"
Throw(q) ==
  LogAndReply(q, "unknown", "internal_error", 500, FALSE, "exception")

\* route.ts 950-957
Succeed(q) ==
  LogAndReply(q, q.url, "success", 200, TRUE, "success")

\* the comparison without the test that a secret is configured
checkAuthAnySecret(adminAuth, secret) == adminAuth = secret

checkAuth(adminAuth, secret) ==
  secret \notin {Null, ""} /\ adminAuth = secret

(***************************************************************************)
(* Reads of the store                                                       *)
(***************************************************************************)
\* a duplicate check that never finds the article
ArticlesBySourceUrlNone(url) == {}

\* from("articles").select().eq("source_url", url)
ArticlesBySourceUrl(url) ==
  {a \in DOMAIN articles : articles[a].source_url = url}

\* from("articles").select("slug").like("slug", `${baseSlug}%`): a base slug
\* holds no % and no _, so the pattern matches the slugs it is a prefix of
SlugsLike(baseSlug) ==
  {articles[a].slug : a \in {b \in DOMAIN articles :
                               StartsWith(articles[b].slug, baseSlug)}}

\* a slug taken from the title alone
getUniqueSlugBase(baseSlug, read) == baseSlug

\* getUniqueSlug; read is FALSE when the query returns an error, and data
\* is then null
getUniqueSlug(baseSlug, read) ==
  LET existing == IF read THEN SlugsLike(baseSlug) ELSE {}
  IN  IF existing = {} THEN baseSlug
      ELSE IF baseSlug \notin existing THEN baseSlug
      ELSE Suffixed(baseSlug,
             CHOOSE n \in 2..(Cardinality(existing) + 2) :
               /\ Suffixed(baseSlug, n) \notin existing
               /\ \A m \in 2..(n - 1) : Suffixed(baseSlug, m) \in existing)

\* a lookup that never finds the entity
EntitiesBySlugNone(slug) == {}

\* a lookup that returns a stored entity whatever the slug
EntitiesBySlugAny(slug) == DOMAIN entities

\* from("entities").select("id").eq("slug", slug)
EntitiesBySlug(slug) ==
  {e \in DOMAIN entities : entities[e].slug = slug}

\* an exactMatch query that never finds the fact
ExactMatchNone(s, o, p) == {}

\* the exactMatch query
ExactMatch(s, o, p) ==
  {k \in DOMAIN entity_relationships :
     /\ entity_relationships[k].subject_id = s
     /\ entity_relationships[k].object_id = o
     /\ entity_relationships[k].predicate = p
     /\ entity_relationships[k].is_active}

\* a query that finds no row to deactivate
SamePredicateRowsNone(s, p) == {}

\* the samePredicateRows query
SamePredicateRows(s, p) ==
  {k \in DOMAIN entity_relationships :
     /\ entity_relationships[k].subject_id = s
     /\ entity_relationships[k].predicate = p
     /\ entity_relationships[k].is_active}

\* the oldClaims query
CurrentClaims(s, p) ==
  {c \in DOMAIN claims :
     /\ claims[c].claim_type = "relationship"
     /\ claims[c].subject_id = s
     /\ claims[c].predicate = p
     /\ claims[c].is_current}

\* a maxRevision that stays at its initial 0
MaxRevisionZero(cs) == 0

\* for (const c of oldClaims) if (c.revision > maxRevision) maxRevision = ...
MaxRevision(cs) ==
  IF cs = {} THEN 0 ELSE Max({claims[c].revision : c \in cs})

\* a dedup query that never finds the event
TimelineMatchesNone(p) == {}

\* the dedup query of insertTimelineWithClaim
TimelineMatches(p) ==
  {k \in DOMAIN timelines :
     /\ timelines[k].entity = p.entityId
     /\ timelines[k].event_type = p.eventType
     /\ timelines[k].event_date = p.eventDate
     /\ timelines[k].title = p.title}

(***************************************************************************)
(* Entity candidates (route.ts 499-536)                                     *)
(***************************************************************************)
\* the checks of route.ts 500-523 on an element that is an object
Accepted(c) ==
  /\ c.kind = "object"
  /\ trim(c.name) # <<>>
  /\ c.type \in ALLOWED_ENTITY_TYPES
  /\ Len(trim(c.name)) >= 2
  /\ \E k \in DOMAIN trim(c.name) : ~IsDigit(trim(c.name)[k])
  /\ toLowerCase(trim(c.name)) \notin GENERIC_ENTITY_BLOCKLIST
  /\ passesContextualFilter(c.name, c.type, FALSE)

\* normalizeEntityName(e.name || "") of the second and third pass; a name that
\* is not a string is rejected by the first pass only
NormalizedNames(ents) ==
  [k \in DOMAIN ents |-> normalizeEntityName(ents[k].name)]

(***************************************************************************)
(* The position of a request                                                *)
(*                                                                         *)
(* pc names the await the request is suspended at.  Settle runs the code    *)
(* between two awaits that only tests loop bounds and flags.                *)
(***************************************************************************)
RECURSIVE Settle(_)
Settle(q) ==
  CASE q.pc = "ent" /\ q.i > Len(q.parsedEntities) ->
         Settle([q EXCEPT !.pc = "parent"])
    [] q.pc = "parent"
         /\ ~(q.firstCompanyId # 0 /\ q.modelEntityIds # <<>>) ->
         Settle([q EXCEPT !.pc = "first", !.i = 1])
    [] q.pc = "first" /\ q.i > Len(q.modelEntityIds) ->
         Settle([q EXCEPT !.pc = "summary", !.i = 1])
    [] q.pc = "summary" /\ q.i > Len(q.parsedEntities) ->
         Settle([q EXCEPT !.pc = "relgate", !.i = 0])
    \* route.ts 695-700; nothing reads the entity list, firstCompanyId or
    \* modelEntityIds after this test, so the request drops them here
    [] q.pc = "relgate" ->
         LET b == [q EXCEPT !.parsedEntities = <<>>, !.firstCompanyId = 0,
                            !.modelEntityIds = <<>>]
         IN  IF /\ Len(q.parsedEntities) >= 2
                /\ Cardinality({k \in DOMAIN q.parsedEntities :
                     NormalizedNames(q.parsedEntities)[k] # <<>>}) >= 2
               THEN [b EXCEPT !.pc = "relextract"]
               ELSE [b EXCEPT !.pc = "timeline"]
    [] q.pc = "rel" /\ q.nTriples = 0 -> [q EXCEPT !.pc = "timeline"]
    [] OTHER -> q

\* continue: the next element of the loop the request is in
NextEntity(q) == Settle([q EXCEPT !.pc = "ent", !.i = q.i + 1])
NextModel(q) == Settle([q EXCEPT !.pc = "first", !.i = q.i + 1])
NextSummary(q) == Settle([q EXCEPT !.pc = "summary", !.i = q.i + 1])
NextTriple(q) == Settle([q EXCEPT !.pc = "rel", !.nTriples = q.nTriples - 1])

(***************************************************************************)
(* POST: from the request to the inserted article (route.ts 220-419)        *)
(***************************************************************************)
\* the date changes between two requests
Tick ==
  /\ today < MaxDay
  /\ \A r \in DOMAIN req : req[r].pc \in {"idle", "done"}
  /\ today' = today + 1
  /\ UNCHANGED <<site, adminSecret, nreq, faults, store, req>>

\* checkAuth, request.json(), the url checks: no await on the store
Receive(r) ==
  /\ req[r].pc \in {"idle", "done"}
  /\ nreq < MaxRequests
  /\ nreq' = nreq + 1
  /\ \E cookie \in Cookies, body \in Bodies :
       LET q == [IdleReq EXCEPT !.cookie = cookie, !.url = body.url,
                                !.logBase = Len(ingestion_logs)]
       IN  Set(r, IF ~checkAuth(cookie, adminSecret)
                    THEN Reply(q, 401, "unauthorized")
                  ELSE IF body.kind # "ok"
                    THEN Reply(q, 400, "invalid_input")
                  ELSE [q EXCEPT !.pc = "dup"])
  /\ UNCHANGED <<site, adminSecret, today, faults, store>>

\* route.ts 246-263
DuplicateCheck(r) ==
  LET q == req[r]
      existing == ArticlesBySourceUrl(q.url)
  IN  /\ q.pc = "dup"
      /\ IF existing # {}
           THEN \E a \in existing :
                  Set(r, [Fail(q, "duplicate", 409, "duplicate")
                            EXCEPT !.existing_id = articles[a].id])
           ELSE Set(r, [q EXCEPT !.pc = "fetch"])
      /\ UNCHANGED <<site, adminSecret, today, nreq, faults, store>>

FetchOutcomes ==
  {"timeout", "neterror", "notok", "badtype", "bodyerror", "html"}

\* route.ts 265-329: fetch, fetchRes.text(), stripHtml and the length checks
Fetch(r) ==
  LET q == [req[r] EXCEPT !.fetched = TRUE]
  IN  /\ q.pc = "fetch"
      /\ \E o \in FetchOutcomes, len \in TextLens, page \in PageKinds :
           LET cleaned == IF len > MaxTextLen THEN MaxTextLen ELSE len
           IN  Set(r,
                 CASE o = "timeout" ->
                        Fail(q, "fetch_error", 408, "fetch_timeout")
                   [] o = "neterror" ->
                        Fail(q, "fetch_error", 400, "fetch_error")
                   [] o = "notok" ->
                        Fail(q, "fetch_error", 400, "fetch_not_ok")
                   [] o = "badtype" ->
                        Fail(q, "fetch_error", 400, "bad_content_type")
                   [] o = "bodyerror" -> Throw(q)
                   [] o = "html" ->
                        IF cleaned < MinTextLen
                          THEN Fail(q, "fetch_error", 422, "too_short")
                          ELSE [q EXCEPT !.pc = "extract", !.page = page])
      /\ UNCHANGED <<site, adminSecret, today, nreq, faults, store>>

ExtractOutcomes ==
  {"nokey", "reqerror", "empty", "badjson", "missing", "ok"}

\* route.ts 331-388: the extraction call and the parse of its answer
Extract(r) ==
  LET q == req[r]
      x == [q EXCEPT !.extracted = TRUE]
  IN  /\ q.pc = "extract"
      /\ \E o \in ExtractOutcomes :
           IF o = "nokey"
             THEN Set(r, Fail(q, "ai_validation_error", 500, "ai_error"))
           ELSE IF o # "ok"
             THEN Set(r, Fail(x, "ai_validation_error", 500, "ai_error"))
           ELSE \E ents \in EntityListsOf(q.page) :
                  Set(r, [x EXCEPT !.pc = "insert", !.parsedEntities = ents])
      /\ UNCHANGED <<site, adminSecret, today, nreq, faults, store>>

\* an insert that stores the row and reports an error all the same
ArticlesAfterInsertAlways(ok, row) == Append(articles, row)

\* an insert that reports success and stores nothing
ArticlesAfterInsertNever(ok, row) == articles

\* from("articles").insert({...}).select().single(): the table afterwards
ArticlesAfterInsert(ok, row) ==
  IF ok THEN Append(articles, row) ELSE articles

\* route.ts 390-419: generateSlug, getUniqueSlug and the insert
InsertArticle(r) ==
  LET q == req[r]
      id == articleSeq + 1
      title == ParsedTitle(q.url)
  IN  /\ q.pc = "insert"
      /\ \E read \in CallResults, ok \in BOOLEAN :
           LET slug == getUniqueSlug(generateSlug(title), read)
               row == [id |-> id, title |-> title, slug |-> slug,
                       status |-> "published", publish_at |-> today,
                       source_url |-> q.url]
           IN  /\ Charge(read)
               /\ articles' = ArticlesAfterInsert(ok, row)
               /\ articleSeq' = IF ok THEN id ELSE articleSeq
               /\ IF ok
                    THEN Set(r, Settle([q EXCEPT !.pc = "ent", !.i = 1,
                                                 !.articleId = id]))
                    ELSE Set(r, Fail(q, "insert_error", 500, "insert_error"))
      /\ UNCHANGED <<reviews, home, adminSecret, today, nreq, entities,
                     article_entities, entity_relationships, claims,
                     timelines, ingestion_logs>>

\* logIngestion, then the response
LogIngestion(r) ==
  LET q == req[r]
  IN  /\ q.pc = "log"
      /\ ingestion_logs' =
           Append(ingestion_logs,
                  [source_url |-> q.logUrl, status |-> q.logStatus])
      /\ Set(r, [q EXCEPT !.pc = "done"])
      /\ UNCHANGED <<site, adminSecret, today, nreq, faults, factTables>>

(***************************************************************************)
(* Entity resolution (route.ts 495-623)                                     *)
(***************************************************************************)
\* the first entity of the batch taken for the first company
CollectFirstEntity(q, id, type) ==
  [q EXCEPT !.entityId = id,
            !.modelEntityIds = IF type = "model" THEN Append(@, id) ELSE @,
            !.firstCompanyId = IF @ = 0 THEN id ELSE @]

\* route.ts 563-568: the accumulators of the batch
Collect(q, id, type) ==
  [q EXCEPT !.entityId = id,
            !.modelEntityIds = IF type = "model" THEN Append(@, id) ELSE @,
            !.firstCompanyId = IF type = "company" /\ @ = 0 THEN id ELSE @]

\* route.ts 499-548: the checks of one candidate and the lookup by slug
EntityLookup(r) ==
  LET q == req[r]
      c == q.parsedEntities[q.i]
      name == normalizeEntityName(c.name)
      found == EntitiesBySlug(slugOf(name))
  IN  /\ q.pc = "ent"
      /\ IF c.kind = "null" THEN Set(r, Throw(q))
         ELSE IF ~Accepted(c) \/ name = <<>> THEN Set(r, NextEntity(q))
         ELSE IF found = {} THEN Set(r, [q EXCEPT !.pc = "entinsert"])
         ELSE \E e \in found :
                Set(r, [Collect(q, e, c.type) EXCEPT !.pc = "link"])
      /\ UNCHANGED <<site, adminSecret, today, nreq, faults, store>>

\* route.ts 550-561
EntityInsert(r) ==
  LET q == req[r]
      c == q.parsedEntities[q.i]
      name == normalizeEntityName(c.name)
      id == Len(entities) + 1
  IN  /\ q.pc = "entinsert"
      /\ \E ok \in CallResults :
           /\ Charge(ok)
           /\ IF ok
                THEN /\ entities' =
                          Append(entities,
                                 [id |-> id, name |-> name,
                                  slug |-> slugOf(name), type |-> c.type,
                                  parent_id |-> 0, summary |-> FALSE])
                     /\ Set(r, [Collect(q, id, c.type) EXCEPT !.pc = "link"])
                ELSE /\ entities' = entities
                     /\ Set(r, NextEntity(q))
      /\ UNCHANGED <<site, adminSecret, today, nreq, articles, article_entities,
                     entity_relationships, claims, timelines, ingestion_logs>>

\* route.ts 570-581: the upsert on (article_id, entity_id)
EntityLink(r) ==
  LET q == req[r]
  IN  /\ q.pc = "link"
      /\ \E ok \in CallResults :
           /\ Charge(ok)
           /\ article_entities' =
                IF ok THEN article_entities \cup {<<q.articleId, q.entityId>>}
                      ELSE article_entities
      /\ Set(r, NextEntity([q EXCEPT !.entityId = 0]))
      /\ UNCHANGED <<site, adminSecret, today, nreq, articles, entities,
                     entity_relationships, claims, timelines, ingestion_logs>>

\* the update without .is("parent_id", null)
LinkModelsOverwrite(ents, modelIds, companyId) ==
  [e \in DOMAIN ents |->
     IF e \in Range(modelIds)
       THEN [ents[e] EXCEPT !.parent_id = companyId]
       ELSE ents[e]]

\* update({parent_id: firstCompanyId}).in("id", modelEntityIds)
\*   .is("parent_id", null)
LinkModels(ents, modelIds, companyId) ==
  [e \in DOMAIN ents |->
     IF e \in Range(modelIds) /\ ents[e].parent_id = 0
       THEN [ents[e] EXCEPT !.parent_id = companyId]
       ELSE ents[e]]

\* route.ts 584-602
ParentLink(r) ==
  LET q == req[r]
  IN  /\ q.pc = "parent"
      /\ \E ok \in CallResults :
           /\ Charge(ok)
           /\ entities' =
                IF ok THEN LinkModels(entities, q.modelEntityIds,
                                      q.firstCompanyId)
                      ELSE entities
      /\ Set(r, Settle([q EXCEPT !.pc = "first", !.i = 1]))
      /\ UNCHANGED <<site, adminSecret, today, nreq, articles, article_entities,
                     entity_relationships, claims, timelines, ingestion_logs>>

\* route.ts 604-622: the first-appearance event of every model of the batch
FirstAppearance(r) ==
  LET q == req[r]
      modelId == q.modelEntityIds[q.i]
      existingTimeline == {k \in DOMAIN timelines :
                             timelines[k].entity = modelId}
  IN  /\ q.pc = "first"
      /\ IF existingTimeline = {}
           THEN Set(r, [q EXCEPT
                  !.pc = "tldedup", !.ret = "first",
                  !.tl = [entityId |-> modelId,
                          title |-> "First appearance in repository",
                          eventDate |-> today,
                          eventType |-> FIRST_APPEARANCE,
                          confidence |-> 70]])
           ELSE Set(r, NextModel(q))
      /\ UNCHANGED <<site, adminSecret, today, nreq, faults, store>>

(***************************************************************************)
(* insertTimelineWithClaim (route.ts 5-66)                                  *)
(***************************************************************************)
\* back in the caller: the loop over the models, or the end of POST
Return(q) ==
  LET b == [q EXCEPT !.tl = NoTimeline, !.ret = Null, !.rawEventType = <<>>]
  IN  IF q.ret = "first" THEN NextModel(b) ELSE Succeed(b)

\* route.ts 16-28
TimelineDedup(r) ==
  LET q == req[r]
  IN  /\ q.pc = "tldedup"
      /\ IF TimelineMatches(q.tl) # {}
           THEN Set(r, Return(q))
           ELSE Set(r, [q EXCEPT !.pc = "tlinsert"])
      /\ UNCHANGED <<site, adminSecret, today, nreq, faults, store>>

\* route.ts 30-45
TimelineInsert(r) ==
  LET q == req[r]
  IN  /\ q.pc = "tlinsert"
      /\ \E ok \in CallResults :
           /\ Charge(ok)
           /\ IF ok
                THEN /\ timelines' =
                          Append(timelines,
                                 [entity |-> q.tl.entityId,
                                  title |-> q.tl.title,
                                  event_date |-> q.tl.eventDate,
                                  event_type |-> q.tl.eventType,
                                  source_url |-> q.url,
                                  confidence |-> q.tl.confidence])
                     /\ Set(r, [q EXCEPT !.pc = "tlclaim"])
                ELSE /\ timelines' = timelines
                     /\ Set(r, Return(q))
      /\ UNCHANGED <<site, adminSecret, today, nreq, articles, entities,
                     article_entities, entity_relationships, claims,
                     ingestion_logs>>

NoPayload == [event_type |-> <<>>, event_date |-> 0, title |-> Null]

\* route.ts 47-65
TimelineClaim(r) ==
  LET q == req[r]
  IN  /\ q.pc = "tlclaim"
      /\ \E ok \in CallResults :
           /\ Charge(ok)
           /\ claims' =
                IF ok
                  THEN Append(claims,
                         [claim_type |-> "timeline",
                          subject_id |-> q.tl.entityId,
                          object_id |-> 0,
                          predicate |-> Null,
                          structured_payload |->
                            [event_type |-> q.tl.eventType,
                             event_date |-> q.tl.eventDate,
                             title |-> q.tl.title],
                          source_url |-> q.url,
                          confidence |-> q.tl.confidence,
                          revision |-> 1,
                          is_current |-> TRUE])
                  ELSE claims
      /\ Set(r, Return(q))
      /\ UNCHANGED <<site, adminSecret, today, nreq, articles, entities,
                     article_entities, entity_relationships, timelines,
                     ingestion_logs>>

(***************************************************************************)
(* Summary backfill (route.ts 625-678)                                      *)
(***************************************************************************)
\* route.ts 626-645: normalizeEntityName(entity.name || "") calls trim on
\* whatever the name is, so a name that is a number throws here
SummaryLookup(r) ==
  LET q == req[r]
      c == q.parsedEntities[q.i]
      name == normalizeEntityName(c.name)
      found == {e \in EntitiesBySlug(slugOf(name)) : ~entities[e].summary}
  IN  /\ q.pc = "summary"
      /\ IF c.kind # "object" THEN Set(r, Throw(q))
         ELSE IF name = <<>> \/ found = {} THEN Set(r, NextSummary(q))
         ELSE \E e \in found :
                Set(r, [q EXCEPT !.pc = "sumgen", !.entityId = e])
      /\ UNCHANGED <<site, adminSecret, today, nreq, faults, store>>

\* route.ts 646-660, 673-675: the summary call; good is "an answer of more
\* than 50 characters came back"
SummaryGenerate(r) ==
  LET q == req[r]
  IN  /\ q.pc = "sumgen"
      /\ \E good \in CallResults :
           /\ Charge(good)
           /\ Set(r, IF good THEN [q EXCEPT !.pc = "sumupdate"]
                             ELSE NextSummary([q EXCEPT !.entityId = 0]))
      /\ UNCHANGED <<site, adminSecret, today, nreq, store>>

\* route.ts 661-671: update({summary}).eq("id", id).is("summary", null)
SummaryUpdate(r) ==
  LET q == req[r]
  IN  /\ q.pc = "sumupdate"
      /\ \E ok \in CallResults :
           /\ Charge(ok)
           /\ entities' =
                IF ok THEN [entities EXCEPT ![q.entityId].summary = TRUE]
                      ELSE entities
      /\ Set(r, NextSummary([q EXCEPT !.entityId = 0]))
      /\ UNCHANGED <<site, adminSecret, today, nreq, articles, article_entities,
                     entity_relationships, claims, timelines, ingestion_logs>>

(***************************************************************************)
(* Relationship versioning (route.ts 695-860)                               *)
(***************************************************************************)
\* typeof rel.confidence === "number"
\*   ? Math.min(1, Math.max(0, rel.confidence)) : 0.7, in percent
ClampConfidence(c) ==
  IF ~c.isNumber THEN 70
  ELSE IF c.value < 0 THEN 0
  ELSE IF c.value > 100 THEN 100
  ELSE c.value

\* continue: drop the locals of the triple
DoneTriple(q) ==
  NextTriple([q EXCEPT !.subjectId = 0, !.objectId = 0, !.predicate = Null,
                       !.confidence = 0, !.ids = {}, !.maxRevision = 0,
                       !.relBase = 0, !.prevCurrent = {}])

\* route.ts 701-733: the relationship call; n = 0 stands for a failed call,
\* an answer that is no array and an empty array alike.  The elements of the
\* array are drawn when the loop reaches them.
RelExtract(r) ==
  LET q == req[r]
  IN  /\ q.pc = "relextract"
      /\ \E n \in 0..MaxTriplesOf(q.page) :
           Set(r, Settle([q EXCEPT !.pc = "rel", !.nTriples = n]))
      /\ UNCHANGED <<site, adminSecret, today, nreq, faults, store>>

\* route.ts 734-757: one element of the array; reading a field of null throws
\* into the catch of route.ts 856, which ends the loop.  rel keeps the element
\* the loop took last until the request writes its log row.
RelResolve(r) ==
  LET q == req[r]
  IN  /\ q.pc = "rel"
      /\ \E t \in TripleInputs :
           LET x == [q EXCEPT !.rel = t]
               subjectName == normalizeEntityName(t.subject)
               objectName == normalizeEntityName(t.object)
               subjects == EntitiesBySlug(slugOf(subjectName))
               objects == EntitiesBySlug(slugOf(objectName))
           IN  IF t.kind = "null"
                 THEN Set(r, [x EXCEPT !.pc = "timeline", !.nTriples = 0])
               ELSE IF \/ t.predicate \notin ALLOWED_PREDICATES
                       \/ subjectName = <<>> \/ objectName = <<>>
                       \/ subjects = {} \/ objects = {}
                 THEN Set(r, DoneTriple(x))
               ELSE \E s \in subjects, o \in objects :
                      Set(r, [x EXCEPT
                        !.pc = "relexact", !.subjectId = s, !.objectId = o,
                        !.predicate = t.predicate,
                        !.confidence = ClampConfidence(t.confidence),
                        !.prevCurrent =
                          {claims[c].revision :
                             c \in CurrentClaims(s, t.predicate)}])
      /\ UNCHANGED <<site, adminSecret, today, nreq, faults, store>>

\* route.ts 759-771
RelExact(r) ==
  LET q == req[r]
  IN  /\ q.pc = "relexact"
      /\ IF ExactMatch(q.subjectId, q.objectId, q.predicate) # {}
           THEN Set(r, DoneTriple(q))
           ELSE Set(r, [q EXCEPT !.pc = "relsame"])
      /\ UNCHANGED <<site, adminSecret, today, nreq, faults, store>>

\* route.ts 773-783; relBase is the number of rows the table holds at the
\* read, for the properties
RelSame(r) ==
  LET q == [req[r] EXCEPT !.relBase = Len(entity_relationships)]
      samePredicateRows == SamePredicateRows(q.subjectId, q.predicate)
  IN  /\ q.pc = "relsame"
      /\ IF samePredicateRows # {}
           THEN Set(r, [q EXCEPT !.pc = "reldeact",
                                 !.ids = samePredicateRows])
           ELSE Set(r, [q EXCEPT !.pc = "relinsert"])
      /\ UNCHANGED <<site, adminSecret, today, nreq, faults, store>>

\* an update that makes the rows of ids inactive and leaves valid_to unset
DeactivateUndated(rels, ids, day) ==
  [k \in DOMAIN rels |->
     IF k \in ids THEN [rels[k] EXCEPT !.is_active = FALSE] ELSE rels[k]]

\* an update that makes the rows of ids inactive and every other row active
DeactivateAndRevive(rels, ids, day) ==
  [k \in DOMAIN rels |->
     IF k \in ids
       THEN [rels[k] EXCEPT !.is_active = FALSE, !.valid_to = day]
       ELSE [rels[k] EXCEPT !.is_active = TRUE]]

\* update({is_active: false, valid_to: today, ...}).in("id", idsToDeactivate)
Deactivate(rels, ids, day) ==
  [k \in DOMAIN rels |->
     IF k \in ids
       THEN [rels[k] EXCEPT !.is_active = FALSE, !.valid_to = day]
       ELSE rels[k]]

\* route.ts 784-793: the result of the update is not looked at
RelDeactivate(r) ==
  LET q == req[r]
  IN  /\ q.pc = "reldeact"
      /\ \E ok \in CallResults :
           /\ Charge(ok)
           /\ entity_relationships' =
                IF ok THEN Deactivate(entity_relationships, q.ids, today)
                      ELSE entity_relationships
      /\ Set(r, [q EXCEPT !.pc = "relold", !.ids = {}])
      /\ UNCHANGED <<site, adminSecret, today, nreq, articles, entities,
                     article_entities, claims, timelines, ingestion_logs>>

\* route.ts 795-806
RelOldClaims(r) ==
  LET q == req[r]
      oldClaims == CurrentClaims(q.subjectId, q.predicate)
  IN  /\ q.pc = "relold"
      /\ IF oldClaims # {}
           THEN Set(r, [q EXCEPT !.pc = "relclaimsupd", !.ids = oldClaims,
                                 !.maxRevision = MaxRevision(oldClaims)])
           ELSE Set(r, [q EXCEPT !.pc = "relinsert"])
      /\ UNCHANGED <<site, adminSecret, today, nreq, faults, store>>

\* an update that leaves the old claims current
SupersedeNothing(cs, ids) == cs

\* update({is_current: false, ...}).in("id", oldClaims.map(c => c.id))
Supersede(cs, ids) ==
  [c \in DOMAIN cs |->
     IF c \in ids THEN [cs[c] EXCEPT !.is_current = FALSE] ELSE cs[c]]

\* route.ts 807-811: the result of the update is not looked at
RelClaimsUpdate(r) ==
  LET q == req[r]
  IN  /\ q.pc = "relclaimsupd"
      /\ \E ok \in CallResults :
           /\ Charge(ok)
           /\ claims' = IF ok THEN Supersede(claims, q.ids) ELSE claims
      /\ Set(r, [q EXCEPT !.pc = "relinsert", !.ids = {}])
      /\ UNCHANGED <<site, adminSecret, today, nreq, articles, entities,
                     article_entities, entity_relationships, timelines,
                     ingestion_logs>>

\* route.ts 816-832
RelInsert(r) ==
  LET q == req[r]
  IN  /\ q.pc = "relinsert"
      /\ \E ok \in CallResults :
           /\ Charge(ok)
           /\ IF ok
                THEN /\ entity_relationships' =
                          Append(entity_relationships,
                                 [subject_id |-> q.subjectId,
                                  object_id |-> q.objectId,
                                  predicate |-> q.predicate,
                                  source_url |-> q.url,
                                  confidence |-> q.confidence,
                                  is_active |-> TRUE,
                                  valid_from |-> today,
                                  valid_to |-> 0])
                     /\ Set(r, [q EXCEPT !.pc = "relclaim"])
                ELSE /\ entity_relationships' = entity_relationships
                     /\ Set(r, DoneTriple(q))
      /\ UNCHANGED <<site, adminSecret, today, nreq, articles, entities,
                     article_entities, claims, timelines, ingestion_logs>>

\* route.ts 834-852
RelClaimInsert(r) ==
  LET q == req[r]
  IN  /\ q.pc = "relclaim"
      /\ \E ok \in CallResults :
           /\ Charge(ok)
           /\ claims' =
                IF ok
                  THEN Append(claims,
                         [claim_type |-> "relationship",
                          subject_id |-> q.subjectId,
                          object_id |-> q.objectId,
                          predicate |-> q.predicate,
                          structured_payload |-> NoPayload,
                          source_url |-> q.url,
                          confidence |-> q.confidence,
                          revision |-> q.maxRevision + 1,
                          is_current |-> TRUE])
                  ELSE claims
      /\ Set(r, DoneTriple(q))
      /\ UNCHANGED <<site, adminSecret, today, nreq, articles, entities,
                     article_entities, entity_relationships, timelines,
                     ingestion_logs>>

(***************************************************************************)
(* The timeline event of the article (route.ts 916-948)                     *)
(***************************************************************************)
\* the entity is looked up by the slug of the raw name: the name is not
\* passed through normalizeEntityName here; calling toLowerCase on an entity
\* that is not a string throws
Timeline(r) ==
  LET q == req[r]
  IN  /\ q.pc = "timeline"
      /\ \E ev \in TimelineInputsOf(q.page) :
           LET found == EntitiesBySlug(slugOf(ev.entity))
           IN  IF ev.kind = "numentity" THEN Set(r, Throw(q))
               ELSE IF ev.kind = "null" \/ found = {} THEN Set(r, Succeed(q))
               ELSE \E e \in found :
                      Set(r, [q EXCEPT
                        !.pc = "tldedup", !.ret = "end",
                        !.rawEventType = ev.event_type,
                        !.tl = [entityId |-> e,
                                title |-> ev.title,
                                eventDate |-> ev.date,
                                eventType |->
                                  normalizeEventType(ev.event_type),
                                confidence |-> 85]])
      /\ UNCHANGED <<site, adminSecret, today, nreq, faults, store>>

(***************************************************************************)
(* Specifications                                                           *)
(***************************************************************************)
Step(r) ==
  \/ Receive(r)
  \/ DuplicateCheck(r)
  \/ Fetch(r)
  \/ Extract(r)
  \/ InsertArticle(r)
  \/ EntityLookup(r)
  \/ EntityInsert(r)
  \/ EntityLink(r)
  \/ ParentLink(r)
  \/ FirstAppearance(r)
  \/ TimelineDedup(r)
  \/ TimelineInsert(r)
  \/ TimelineClaim(r)
  \/ SummaryLookup(r)
  \/ SummaryGenerate(r)
  \/ SummaryUpdate(r)
  \/ RelExtract(r)
  \/ RelResolve(r)
  \/ RelExact(r)
  \/ RelSame(r)
  \/ RelDeactivate(r)
  \/ RelOldClaims(r)
  \/ RelClaimsUpdate(r)
  \/ RelInsert(r)
  \/ RelClaimInsert(r)
  \/ Timeline(r)
  \/ LogIngestion(r)

Next == Tick \/ \E r \in Reqs : Step(r)

\* requests one at a time, every store call of the sub-items succeeds
Spec == Init /\ [][Next]_vars

\* requests one at a time, up to MaxFaults store calls of the sub-items fail
SpecFail == InitFail /\ [][Next]_vars

\* the store and the request slot after the ingestion, on day 1, of a page
\* at the first url that names the companies Ab, Cd and Ef and the triple
\* (Ab, funded_by, Cd) with confidence 1: a state Spec reaches
AfterFirst ==
  LET u == "https://a.example/1"
  IN  /\ adminSecret = Secret
      /\ today = 1
      /\ nreq = MaxRequests - 1
      /\ articleSeq = 1
      /\ home = IdleHome /\ NoReview
      /\ articles =
           <<[id |-> 1, title |-> ParsedTitle(u),
              slug |-> generateSlug(ParsedTitle(u)), status |-> "published",
              publish_at |-> 1, source_url |-> u]>>
      /\ entities =
           [e \in 1..3 |->
              LET name == <<NameAb, NameCd, NameEf>>[e]
              IN  [id |-> e, name |-> name, slug |-> slugOf(name),
                   type |-> "company", parent_id |-> 0, summary |-> TRUE]]
      /\ article_entities = {<<1, 1>>, <<1, 2>>, <<1, 3>>}
      /\ entity_relationships =
           <<[subject_id |-> 1, object_id |-> 2, predicate |-> "funded_by",
              source_url |-> u, confidence |-> 100, is_active |-> TRUE,
              valid_from |-> 1, valid_to |-> 0]>>
      /\ claims =
           <<[claim_type |-> "relationship", subject_id |-> 1,
              object_id |-> 2, predicate |-> "funded_by",
              structured_payload |-> NoPayload, source_url |-> u,
              confidence |-> 100, revision |-> 1, is_current |-> TRUE]>>
      /\ timelines = <<>>
      /\ ingestion_logs = <<[source_url |-> u, status |-> "success"]>>
      /\ req = [r \in Reqs |->
                  [IdleReq EXCEPT !.pc = "done", !.cookie = Secret,
                                  !.url = u, !.articleId = 1, !.logUrl = u,
                                  !.logStatus = "success", !.http = 200,
                                  !.success = TRUE, !.outcome = "success",
                                  !.fetched = TRUE, !.extracted = TRUE]]

\* one request remains, and MaxFaults of its store calls may fail
InitSecond == AfterFirst /\ faults = MaxFaults

\* a second ingestion after a first one that stored a fact; up to MaxFaults
\* store calls of the sub-items of the second fail
\* the steps of the second request: every entity its page can name is
\* stored with a summary, so no step inserts an entity or writes a summary
StepSecond(r) ==
  \/ Receive(r)
  \/ DuplicateCheck(r)
  \/ Fetch(r)
  \/ Extract(r)
  \/ InsertArticle(r)
  \/ EntityLookup(r)
  \/ EntityLink(r)
  \/ ParentLink(r)
  \/ FirstAppearance(r)
  \/ TimelineDedup(r)
  \/ TimelineInsert(r)
  \/ TimelineClaim(r)
  \/ SummaryLookup(r)
  \/ RelExtract(r)
  \/ RelResolve(r)
  \/ RelExact(r)
  \/ RelSame(r)
  \/ RelDeactivate(r)
  \/ RelOldClaims(r)
  \/ RelClaimsUpdate(r)
  \/ RelInsert(r)
  \/ RelClaimInsert(r)
  \/ Timeline(r)
  \/ LogIngestion(r)

NextSecond == Tick \/ \E r \in Reqs : StepSecond(r)

SpecSecond == InitSecond /\ [][NextSecond]_vars

(***************************************************************************)
(* Two requests at a time                                                   *)
(***************************************************************************)
\* the request slots of the concurrent specification
ConcReqs == {1, 2}

InitConc ==
  /\ adminSecret = Secret
  /\ today = 1
  /\ nreq = 0
  /\ faults = 0
  /\ articleSeq = 0
  /\ home = IdleHome /\ NoReview
  /\ articles = <<>>
  /\ entities = <<>>
  /\ article_entities = {}
  /\ entity_relationships = <<>>
  /\ claims = <<>>
  /\ timelines = <<>>
  /\ ingestion_logs = <<>>
  /\ req = [r \in ConcReqs |-> IdleReq]

\* the steps of a request up to the insert of its article, and the steps
\* that end a request whose extractor output names no entity and no event
ConcStep(r) ==
  \/ Receive(r)
  \/ DuplicateCheck(r)
  \/ Fetch(r)
  \/ Extract(r)
  \/ InsertArticle(r)
  \/ Timeline(r)
  \/ LogIngestion(r)

NextConc == \E r \in ConcReqs : ConcStep(r)

\* two requests whose awaits interleave in any order; a request whose
\* extractor output names entities is not followed past the article insert
SpecConc == InitConc /\ [][NextConc]_vars

(***************************************************************************)
(* The articles routes and the home page                                    *)
(* (articles/route.ts POST, articles/[id]/route.ts, page.tsx fetchArticles) *)
(***************************************************************************)
\* POST /api/articles: the route has no checkAuth
CreateArticle(bodies) ==
  /\ articleSeq < MaxArticles
  /\ \E body \in bodies, read \in CallResults, ok \in BOOLEAN :
       LET articleStatus == IF body.status = Null THEN "draft" ELSE body.status
           articlePublishAt ==
             IF articleStatus = "published" /\ body.publish_at = 0
               THEN today ELSE body.publish_at
           slug == getUniqueSlug(generateSlugOfTitle(body.title), read)
           row == [id |-> articleSeq + 1, title |-> body.title,
                   slug |-> slug, status |-> articleStatus,
                   publish_at |-> articlePublishAt, source_url |-> Null]
       IN  /\ body.title # <<>> /\ body.hasContent
           /\ articleStatus \in validStatuses
           /\ ~(articleStatus = "scheduled" /\ body.publish_at = 0)
           /\ Charge(read)
           /\ articles' = ArticlesAfterInsert(ok, row)
           /\ articleSeq' = IF ok THEN articleSeq + 1 ELSE articleSeq
  /\ UNCHANGED <<reviews, home, adminSecret, today, nreq, entities,
                 article_entities,
                 entity_relationships, claims, timelines, ingestion_logs, req>>

\* the row after .update(updates) of PATCH
Patched(row, body) ==
  LET a == IF body.status # Null THEN [row EXCEPT !.status = body.status]
                                 ELSE row
      b == IF body.hasPublishAt
             THEN [a EXCEPT !.publish_at = body.publish_at] ELSE a
  IN  IF body.status = "published" /\ body.publish_at = 0
        THEN [b EXCEPT !.publish_at = today] ELSE b

\* PATCH /api/articles/[id] with a body that names status or publish_at
PatchArticle ==
  /\ \E cookie \in Cookies, id \in 1..articleSeq, body \in PatchBodies :
       /\ checkAuth(cookie, adminSecret)
       /\ body.status \in validStatuses \cup {Null}
       /\ ~(body.status = "scheduled" /\ body.publish_at = 0)
       /\ body.status # Null \/ body.hasPublishAt
       /\ articles' =
            [a \in DOMAIN articles |->
               IF articles[a].id = id THEN Patched(articles[a], body)
                                      ELSE articles[a]]
  /\ UNCHANGED <<reviews, articleSeq, home, adminSecret, today, nreq, faults,
                 entities, article_entities, entity_relationships, claims,
                 timelines, ingestion_logs, req>>

\* DELETE /api/articles/[id]
DeleteArticle ==
  /\ \E cookie \in Cookies, id \in 1..articleSeq :
       /\ checkAuth(cookie, adminSecret)
       /\ articles' = SelectSeq(articles, LAMBDA row : row.id # id)
  /\ UNCHANGED <<reviews, articleSeq, home, adminSecret, today, nreq, faults,
                 entities, article_entities, entity_relationships, claims,
                 timelines, ingestion_logs, req>>

\* .or("status.eq.published,status.eq.scheduled").lte("publish_at", nowISO)
\* .order("publish_at", {ascending: false}); a null publish_at fails lte
PublishedList(nowISO) ==
  SortSeq(SelectSeq(articles,
                    LAMBDA row : /\ row.status \in {"published", "scheduled"}
                                 /\ row.publish_at # 0
                                 /\ row.publish_at <= nowISO),
          LAMBDA x, y : x.publish_at > y.publish_at)

\* the ids of the scheduled articles whose publish_at has passed
DueScheduled(t) ==
  {articles[a].id : a \in {b \in DOMAIN articles :
                             /\ articles[b].status = "scheduled"
                             /\ articles[b].publish_at # 0
                             /\ articles[b].publish_at <= t}}

\* page.tsx 161-172: the select; an error ends fetchArticles with no data
HomeRead ==
  /\ home.pc = "idle"
  /\ LET data == PublishedList(today)
         dueScheduled == SelectSeq(data, LAMBDA row : row.status = "scheduled")
     IN  home' = [pc |-> IF dueScheduled # <<>> THEN "promote" ELSE "done",
                  nowISO |-> today, data |-> data,
                  due |-> DueScheduled(today)]
  /\ UNCHANGED <<reviews, articleSeq, adminSecret, today, nreq, faults, store,
                 req>>

\* an update that changes no row
PromotedNone(ids, ok) == articles

\* update({status: "published"}).in("id", ids): the table afterwards
Promoted(ids, ok) ==
  [a \in DOMAIN articles |->
     IF ok /\ articles[a].id \in ids
       THEN [articles[a] EXCEPT !.status = "published"]
       ELSE articles[a]]

\* page.tsx 174-182: the update, whose result the code does not read, and
\* the return of data
HomePromote ==
  /\ home.pc = "promote"
  /\ \E ok \in CallResults :
       LET dueScheduled ==
             SelectSeq(home.data, LAMBDA row : row.status = "scheduled")
           ids == {dueScheduled[k].id : k \in DOMAIN dueScheduled}
       IN  /\ Charge(ok)
           /\ articles' = Promoted(ids, ok)
  /\ home' = [home EXCEPT !.pc = "done"]
  /\ UNCHANGED <<reviews, articleSeq, adminSecret, today, nreq, entities,
                 article_entities, entity_relationships, claims, timelines,
                 ingestion_logs, req>>

\* the page is rendered from data
HomeRender ==
  /\ home.pc = "done"
  /\ home' = IdleHome
  /\ UNCHANGED <<reviews, articleSeq, adminSecret, today, nreq, faults, store,
                 req>>

\* one ingestion is left
InitSite ==
  /\ adminSecret = Secret
  /\ today = 1
  /\ nreq = MaxRequests - 1
  /\ faults = 0
  /\ articleSeq = 0
  /\ home = IdleHome /\ NoReview
  /\ articles = <<>>
  /\ entities = <<>>
  /\ article_entities = {}
  /\ entity_relationships = <<>>
  /\ claims = <<>>
  /\ timelines = <<>>
  /\ ingestion_logs = <<>>
  /\ req = [r \in Reqs |-> IdleReq]

\* no ingestion is in flight
NoIngestion == \A r \in DOMAIN req : req[r].pc \in {"idle", "done"}

\* articles are created by the admin and by an ingestion and deleted by the
\* admin; an admin request is served while no ingestion is in flight
NextSlugs ==
  \/ Tick
  \/ \E r \in Reqs : ConcStep(r)
  \/ NoIngestion /\ CreateArticle(TitleBodies)
  \/ NoIngestion /\ DeleteArticle

\* the articles a sequence of creations and deletions leaves; every store
\* read succeeds
SpecSlugs == InitSite /\ [][NextSlugs]_vars

\* the admin creates, edits and deletes articles of one title, and the home
\* page is read
NextHome ==
  \/ Tick
  \/ CreateArticle(StatusBodies)
  \/ PatchArticle
  \/ DeleteArticle
  \/ HomeRead
  \/ HomePromote
  \/ HomeRender

\* the reads of the home page among the requests of the admin, which fall
\* between the select and the update of a read as well; every store call
\* succeeds
SpecHome == InitSite /\ [][NextHome]_vars

(***************************************************************************)
(* The claim review of the admin (PATCH /api/admin/claims)                  *)
(***************************************************************************)
MaxReviews == 2

allowed == {"auto_extracted", "human_reviewed", "verified", "disputed"}

\* what a request may carry as verification_status: a status of the
\* vocabulary, a word that is none, or nothing
ReviewInputs == allowed \cup {"rejected", Null}

\* an update without .eq("id", id): every claim gets the columns
ReviewedAll(id, columns) == [c \in DOMAIN claims |-> columns]

\* from("claims").update({verification_status, updated_by, updated_at})
\*   .eq("id", id): no row if no claim has the id
Reviewed(id, columns) ==
  IF id \in DOMAIN claims
    THEN [c \in DOMAIN claimReview \cup {id} |->
            IF c = id THEN columns ELSE claimReview[c]]
    ELSE claimReview

\* the admin-auth cookie of a review request: the secret or a guess
ReviewCookies == {"guess", Secret}

\* PATCH: the credential, the parameters, the update and the response; id 0
\* is a missing id, and an id above the stored ones addresses no claim
ReviewClaim ==
  /\ NoIngestion
  /\ reviewReq.n < MaxReviews
  /\ \E cookie \in ReviewCookies, id \in 0..(Len(claims) + 1),
        verification_status \in ReviewInputs, ok \in CallResults :
       LET http == IF ~checkAuth(cookie, adminSecret) THEN 401
                   ELSE IF id = 0 \/ verification_status \notin allowed
                     THEN 400
                   ELSE IF ok THEN 200 ELSE 500
       IN  /\ faults' = IF http = 500 THEN faults - 1 ELSE faults
           /\ claimReview' =
                IF http = 200
                  THEN Reviewed(id,
                         [verification_status |-> verification_status,
                          updated_by |-> "admin", updated_at |-> today])
                  ELSE claimReview
           /\ reviewReq' =
                [n |-> reviewReq.n + 1, cookie |-> cookie, id |-> id,
                 verification_status |-> verification_status, http |-> http]
  /\ UNCHANGED <<articleSeq, home, adminSecret, today, nreq, store, req>>

InitReview == AfterFirst /\ faults = 0

NextReview == Tick \/ ReviewClaim \/ \E r \in Reqs : StepSecond(r)

\* the admin reviews claims before and after a second ingestion
SpecReview == InitReview /\ [][NextReview]_vars

(***************************************************************************)
(* Two requests in relationship versioning at a time                        *)
(***************************************************************************)
\* two requests, for two urls, have stored their articles and resolved the
\* companies Ab, Cd and Ef, and both are suspended at the relationship call
InitRace ==
  LET u == <<"https://a.example/1", "https://b.example/2">>
  IN  /\ adminSecret = Secret
      /\ today = 1
      /\ nreq = MaxRequests
      /\ faults = 0
      /\ articleSeq = 2
      /\ home = IdleHome /\ NoReview
      /\ articles =
           [a \in 1..2 |->
              [id |-> a, title |-> ParsedTitle(u[a]),
               slug |-> IF a = 1 THEN generateSlug(ParsedTitle(u[a]))
                        ELSE Suffixed(generateSlug(ParsedTitle(u[a])), 2),
               status |-> "published", publish_at |-> 1,
               source_url |-> u[a]]]
      /\ entities =
           [e \in 1..3 |->
              LET name == <<NameAb, NameCd, NameEf>>[e]
              IN  [id |-> e, name |-> name, slug |-> slugOf(name),
                   type |-> "company", parent_id |-> 0, summary |-> TRUE]]
      /\ article_entities = (1..2) \X (1..3)
      /\ entity_relationships = <<>>
      /\ claims = <<>>
      /\ timelines = <<>>
      /\ ingestion_logs = <<>>
      /\ req = [r \in ConcReqs |->
                  [IdleReq EXCEPT !.pc = "relextract", !.cookie = Secret,
                                  !.url = u[r], !.page = "relationships",
                                  !.articleId = r, !.fetched = TRUE,
                                  !.extracted = TRUE]]

\* relationship versioning and the end of a request
RaceStep(r) ==
  \/ RelExtract(r)
  \/ RelResolve(r)
  \/ RelExact(r)
  \/ RelSame(r)
  \/ RelDeactivate(r)
  \/ RelOldClaims(r)
  \/ RelClaimsUpdate(r)
  \/ RelInsert(r)
  \/ RelClaimInsert(r)
  \/ Timeline(r)
  \/ LogIngestion(r)

NextRace == \E r \in ConcReqs : RaceStep(r)

\* the store calls of the relationship versioning of two requests interleave
\* in any order
SpecRace == InitRace /\ [][NextRace]_vars

(***************************************************************************)
(* Relationship and claim versioning                                        *)
(***************************************************************************)
Rels == DOMAIN entity_relationships

SamePair(a, b) == a.subject_id = b.subject_id /\ a.predicate = b.predicate

RelationshipClaims ==
  {c \in DOMAIN claims : claims[c].claim_type = "relationship"}

\* C1: with requests one at a time and every store call succeeding, every
\* (subject_id, predicate) pair has at most one active entity_relationships
\* row, and every inactive row has a valid_to that is set and is not later
\* than the current date.
C1_OneActivePerPair ==
  /\ \A j, k \in Rels :
       /\ entity_relationships[j].is_active
       /\ entity_relationships[k].is_active
       /\ SamePair(entity_relationships[j], entity_relationships[k])
       => j = k
  /\ \A k \in Rels :
       ~entity_relationships[k].is_active
       => /\ entity_relationships[k].valid_to # 0
          /\ entity_relationships[k].valid_to <= today

\* two triples of one batch for the same pair: the first row is inactive,
\* the second is active
C1_Witness ==
  \E j, k \in Rels :
    /\ j < k
    /\ SamePair(entity_relationships[j], entity_relationships[k])
    /\ entity_relationships[j].source_url = entity_relationships[k].source_url
    /\ ~entity_relationships[j].is_active
    /\ entity_relationships[k].is_active
    /\ \E m \in Rels : ~SamePair(entity_relationships[m],
                                   entity_relationships[k])

\* C2: with requests one at a time and every store call succeeding, every
\* (subject_id, predicate) pair has at most one relationship claim with
\* is_current = true.
C2_OneCurrentClaimPerPair ==
  \A c, d \in RelationshipClaims :
    /\ claims[c].is_current
    /\ claims[d].is_current
    /\ SamePair(claims[c], claims[d])
    => c = d

C2_Witness ==
  \E c, d \in RelationshipClaims :
    /\ SamePair(claims[c], claims[d])
    /\ ~claims[c].is_current
    /\ claims[d].is_current
    /\ claims[c].object_id # claims[d].object_id

\* what a request that processes a triple must do in its next step
C3_Step(r) ==
  LET q == req[r]
  IN  /\ (q.pc = "relclaim" /\ Len(claims') = Len(claims) + 1)
            => LET c == claims'[Len(claims')]
               IN  /\ c.is_current
                   /\ c.revision = IF q.prevCurrent = {} THEN 1
                                   ELSE 1 + Max(q.prevCurrent)
                   /\ \A d \in RelationshipClaims :
                        SamePair(claims[d], c) => ~claims'[d].is_current
      /\ q.pc = "reldeact"
            => \A k \in q.ids :
                 /\ ~entity_relationships'[k].is_active
                 /\ entity_relationships'[k].valid_to = today

SameFact(a, b) == SamePair(a, b) /\ a.object_id = b.object_id

\* C19: no step removes a row of entity_relationships or claims or changes
\* the fact a row states, an inactive relationship stays inactive, and a
\* non-current claim stays non-current.
C19_HistoryRetained ==
  [][/\ Len(entity_relationships') >= Len(entity_relationships)
     /\ Len(claims') >= Len(claims)
     /\ \A k \in Rels :
          /\ SameFact(entity_relationships'[k], entity_relationships[k])
          /\ entity_relationships'[k].valid_from =
               entity_relationships[k].valid_from
          /\ ~entity_relationships[k].is_active
               => /\ ~entity_relationships'[k].is_active
                  /\ entity_relationships'[k].valid_to =
                       entity_relationships[k].valid_to
     /\ \A c \in DOMAIN claims :
          /\ claims'[c].claim_type = claims[c].claim_type
          /\ claims'[c].subject_id = claims[c].subject_id
          /\ claims'[c].object_id = claims[c].object_id
          /\ claims'[c].predicate = claims[c].predicate
          /\ claims'[c].revision = claims[c].revision
          /\ ~claims[c].is_current => ~claims'[c].is_current]_vars

\* (S, p, O1), (S, p, O2) and (S, p, O1) again: the first row stays inactive
\* and a third row and a third claim state the fact anew
C19_Witness ==
  \E j, k, m \in Rels, c, d \in RelationshipClaims :
    /\ j < k /\ k < m /\ c < d
    /\ SameFact(entity_relationships[j], entity_relationships[m])
    /\ SamePair(entity_relationships[j], entity_relationships[k])
    /\ ~entity_relationships[j].is_active
    /\ ~entity_relationships[k].is_active
    /\ entity_relationships[m].is_active
    /\ SameFact(claims[c], entity_relationships[j])
    /\ SameFact(claims[d], entity_relationships[j])
    /\ ~claims[c].is_current /\ claims[c].revision = 1
    /\ claims[d].is_current /\ claims[d].revision = 3

\* the active rows that state the fact of the triple a request is at
ActiveSameFact(q) ==
  {k \in Rels :
     /\ entity_relationships[k].is_active
     /\ entity_relationships[k].subject_id = q.subjectId
     /\ entity_relationships[k].object_id = q.objectId
     /\ entity_relationships[k].predicate = q.predicate}

EarlierArticles(q) ==
  {a \in DOMAIN articles :
     articles[a].source_url = q.url /\ articles[a].id # q.articleId}

PassedChecks(q) ==
  q.pc # "idle" /\ q.outcome \notin {"unauthorized", "invalid_input"}

Quiescent == \A r \in Reqs : req[r].pc \in {"idle", "done"}

PairedClaims(k) ==
  {c \in RelationshipClaims :
     /\ claims[c].is_current
     /\ claims[c].subject_id = entity_relationships[k].subject_id
     /\ claims[c].object_id = entity_relationships[k].object_id
     /\ claims[c].predicate = entity_relationships[k].predicate}

\* C5: when no request is in progress, also after store writes have failed,
\* every active entity_relationships row has exactly one current
\* relationship claim with its (subject_id, object_id, predicate), and every
\* timelines row has a timeline claim whose structured_payload carries the
\* row's event_type, event_date and title.
C5_FactsHaveClaims ==
  Quiescent
    => /\ \A k \in Rels :
            entity_relationships[k].is_active
              => Cardinality(PairedClaims(k)) = 1
       /\ \A t \in DOMAIN timelines :
            \E c \in DOMAIN claims :
              /\ claims[c].claim_type = "timeline"
              /\ claims[c].subject_id = timelines[t].entity
              /\ claims[c].structured_payload =
                   [event_type |-> timelines[t].event_type,
                    event_date |-> timelines[t].event_date,
                    title |-> timelines[t].title]

(***************************************************************************)
(* The ingestion log and the outcome of a request                           *)
(***************************************************************************)
ExpectedStatus(outcome) ==
  CASE outcome = "success" -> "success"
    [] outcome = "duplicate" -> "duplicate"
    [] outcome \in {"fetch_timeout", "fetch_error", "fetch_not_ok",
                    "bad_content_type", "too_short"} -> "fetch_error"
    [] outcome = "ai_error" -> "ai_validation_error"
    [] outcome = "insert_error" -> "insert_error"
    [] outcome = "exception" -> "internal_error"
    [] OTHER -> "none"

LastLog == ingestion_logs[Len(ingestion_logs)]

C7_SubItemFailuresSkipped ==
  \A r \in Reqs :
    (req[r].pc = "done" /\ req[r].articleId # 0)
      => /\ req[r].success
         /\ req[r].http = 200
         /\ LastLog.status = "success"

\* what a request that has not inserted its article may do to the store
C8_Step(r) ==
  (req[r].articleId = 0 /\ req'[r].articleId = 0)
    => /\ factTables' = factTables
       /\ SubSeq(ingestion_logs', 1, Len(ingestion_logs)) = ingestion_logs
       /\ Len(ingestion_logs') =
            Len(ingestion_logs) + IF req[r].pc = "log" THEN 1 ELSE 0

\* C8: no step of a request that does not insert its article changes
\* articles, entities, article_entities, entity_relationships, claims or
\* timelines; the only write of such a request is the one row it appends to
\* ingestion_logs.
C8_FatalFailureWritesLogOnly == [][\A r \in Reqs : C8_Step(r)]_vars

\* a too-short page met by the second request, the store not being empty
C8_Witness ==
  \E r \in Reqs :
    /\ req[r].pc = "done"
    /\ req[r].outcome = "too_short"
    /\ req[r].http = 422
    /\ Len(articles) = 1
    /\ Len(entities) > 0
    /\ Len(ingestion_logs) = 2
    /\ LastLog.status = "fetch_error"

\* the HTTP status the interface documents for a kind of failure
DocumentedStatus(outcome) ==
  CASE outcome = "invalid_input" -> 400
    [] outcome = "unauthorized" -> 401
    [] outcome = "fetch_timeout" -> 408
    [] outcome = "too_short" -> 422
    [] outcome \in {"ai_error", "insert_error"} -> 500
    [] outcome \in {"fetch_error", "fetch_not_ok"} -> 502

\* C16: a request that failed with one of the documented kinds of failure
\* has been answered with success: false and the documented HTTP status of
\* the kind; a transport error and a non-2xx answer of the fetched URL are
\* the upstream fetch failures, documented as 502.
C16_DocumentedStatus ==
  \A r \in Reqs :
    (req[r].pc = "done"
       /\ req[r].outcome \in
            {"invalid_input", "unauthorized", "fetch_timeout", "too_short",
             "ai_error", "insert_error", "fetch_error", "fetch_not_ok"})
      => /\ ~req[r].success
         /\ req[r].http = DocumentedStatus(req[r].outcome)

(***************************************************************************)
(* The entry guard                                                          *)
(***************************************************************************)
\* C9: a request whose cookie is not the configured admin secret, and every
\* request when the secret is unset or empty, has been answered 401 as soon
\* as it is received: it is never at a store call, a fetch or an extraction,
\* and no ingestion_logs row is written for it.
C9_UnauthorizedStopsAtGuard ==
  \A r \in Reqs :
    LET q == req[r]
    IN  (q.pc # "idle"
           /\ (adminSecret \in {Null, ""} \/ q.cookie # adminSecret))
          => /\ q.pc = "done"
             /\ q.http = 401
             /\ ~q.fetched
             /\ ~q.extracted
             /\ q.articleId = 0
             /\ Len(ingestion_logs) = q.logBase

\* an empty cookie against an empty secret
C9_Witness ==
  \E r \in Reqs :
    /\ adminSecret = ""
    /\ req[r].cookie = ""
    /\ req[r].pc = "done"
    /\ req[r].http = 401

(***************************************************************************)
(* The parent links of entities                                             *)
(***************************************************************************)
RECURSIVE Reaches(_, _, _)
\* following parent_id from e for at most n links arrives at target
Reaches(e, target, n) ==
  LET p == entities[e].parent_id
  IN  n > 0 /\ p # 0 /\ (p = target \/ Reaches(p, target, n - 1))

\* C10: the parent_id links form a forest: following parent_id from an
\* entity never leads back to it.
C10_ParentForest ==
  \A e \in DOMAIN entities : ~Reaches(e, e, Len(entities))

\* C11: an entity row is never removed, and once its parent_id is an entity
\* id no step changes it: parent_id goes from null to an id at most once.
C11_ParentSetOnce ==
  [][/\ Len(entities') >= Len(entities)
     /\ \A e \in DOMAIN entities :
          entities[e].parent_id # 0
            => entities'[e].parent_id = entities[e].parent_id]_vars

\* a later batch names a model that has a parent next to another company, and
\* the parent link has been passed
C11_Witness ==
  \E r \in Reqs :
    /\ req[r].pc \in {"first", "tldedup", "summary", "sumgen"}
    /\ req[r].firstCompanyId # 0
    /\ \E e \in Range(req[r].modelEntityIds) :
         entities[e].parent_id \notin {0, req[r].firstCompanyId}

SameEvent(a, b) ==
  /\ a.entity = b.entity
  /\ a.event_type = b.event_type
  /\ a.event_date = b.event_date
  /\ a.title = b.title

\* the rows that hold the event a request is about to insert
StoredEvent(q) ==
  {t \in DOMAIN timelines :
     SameEvent(timelines[t],
               [entity |-> q.tl.entityId, event_type |-> q.tl.eventType,
                event_date |-> q.tl.eventDate, title |-> q.tl.title])}

FirstAppearanceTitle == "First appearance in repository"

Slugs == {articles[a].slug : a \in DOMAIN articles}

\* the slug the title of a stored article gives before any suffix
BaseSlugOf(row) ==
  IF row.source_url = Null THEN generateSlugOfTitle(row.title)
                           ELSE generateSlug(row.title)

\* base when it is free, else base-N for the least N >= 2 that is free
ExpectedSlug(base, taken) ==
  IF base \notin taken THEN base
  ELSE Suffixed(base,
         CHOOSE n \in 2..(Cardinality(taken) + 2) :
           /\ Suffixed(base, n) \notin taken
           /\ \A m \in 2..(n - 1) : Suffixed(base, m) \in taken)

\* a step that stores an article gives it the slug expected from its title
\* and the slugs in use before the step
C15_Step ==
  Len(articles') = Len(articles) + 1
    => LET row == articles'[Len(articles')]
       IN  row.slug = ExpectedSlug(BaseSlugOf(row), Slugs)

Returned(h) == {h.data[k].id : k \in DOMAIN h.data}

\* fetchArticles returns on this step
ReadCompletes == home.pc # "done" /\ home'.pc = "done"

C17_Step ==
  ReadCompletes =>
    /\ \A id \in home'.due :
         /\ id \in Returned(home')
         /\ \A a \in DOMAIN articles' :
              articles'[a].id = id => articles'[a].status = "published"
    /\ \A k \in DOMAIN home'.data :
         /\ home'.data[k].status # "draft"
         /\ home'.data[k].publish_at # 0
         /\ home'.data[k].publish_at <= home'.nowISO

C18_OneArticlePerUrl ==
  (\A r \in DOMAIN req : req[r].pc \in {"idle", "done"})
    => \A a, b \in DOMAIN articles :
         articles[a].source_url = articles[b].source_url => a = b

(***************************************************************************)
(* Triples that do not resolve                                              *)
(***************************************************************************)
RelStage ==
  {"relextract", "rel", "relexact", "relsame", "reldeact", "relold",
   "relclaimsupd", "relinsert", "relclaim"}

\* the stored entities whose slug is the slug of the normalized name
EntitiesNamed(name) ==
  {e \in DOMAIN entities :
     entities[e].slug = slugOf(normalizeEntityName(name))}

\* an element whose predicate is outside the vocabulary or whose subject or
\* object names no stored entity
Unresolvable(t) ==
  /\ t.kind = "object"
  /\ \/ t.predicate \notin ALLOWED_PREDICATES
     \/ EntitiesNamed(t.subject) = {}
     \/ EntitiesNamed(t.object) = {}

\* the ids and the predicate the request works on are those of its element
ResolvedAs(q) ==
  /\ q.rel.kind = "object"
  /\ q.predicate = q.rel.predicate
  /\ q.predicate \in ALLOWED_PREDICATES
  /\ q.subjectId \in EntitiesNamed(q.rel.subject)
  /\ q.objectId \in EntitiesNamed(q.rel.object)

C21_Step ==
  \A r \in DOMAIN req :
    LET q == req[r]
        n == req'[r]
    IN  /\ q.pc \in RelStage => entities' = entities
        /\ ( /\ q.pc \in RelStage
             /\ \/ entity_relationships' # entity_relationships
                \/ claims' # claims )
             => ResolvedAs(q)
        /\ (q.pc = "rel" /\ n # q /\ Unresolvable(n.rel))
             => /\ entity_relationships' = entity_relationships
                /\ claims' = claims
                /\ IF q.nTriples > 1
                     THEN n.pc = "rel" /\ n.nTriples = q.nTriples - 1
                     ELSE n.pc = "timeline"

\* C21: relationship versioning inserts no entities row; a step of it that
\* writes entity_relationships or claims works on a triple whose predicate is
\* in the vocabulary and whose subject and object are stored entities; and a
\* triple that does not resolve writes nothing and leaves the loop at the
\* next triple of the batch
C21_UnresolvedSkipped == [][C21_Step]_vars

\* the loop stands at the second triple of a batch after a first triple whose
\* object is no stored entity, and nothing was written
C21_Witness ==
  \E r \in DOMAIN req :
    /\ req[r].pc = "rel"
    /\ req[r].nTriples = 1
    /\ req[r].rel.object = NameGh
    /\ EntitiesNamed(NameGh) = {}
    /\ EntitiesNamed(NameAb) # {}
    /\ entity_relationships = <<>>

(***************************************************************************)
(* Supersession when an update fails                                        *)
(***************************************************************************)
ActiveOf(s, p) ==
  {k \in Rels : /\ entity_relationships[k].is_active
                /\ entity_relationships[k].subject_id = s
                /\ entity_relationships[k].predicate = p}

CurrentOf(s, p) ==
  {c \in RelationshipClaims : /\ claims[c].is_current
                              /\ claims[c].subject_id = s
                              /\ claims[c].predicate = p}

\* C22: also when the update that deactivates the prior relationships or the
\* update that marks their claims non-current fails, no (subject, predicate)
\* has two active relationships or two current claims, because the request
\* then inserts nothing for the pair
C22_FailedUpdateStops ==
  \A s \in DOMAIN entities, p \in ALLOWED_PREDICATES :
    /\ Cardinality(ActiveOf(s, p)) <= 1
    /\ Cardinality(CurrentOf(s, p)) <= 1

(***************************************************************************)
(* Revisions of the claims of a pair                                        *)
(***************************************************************************)
\* C23: in every state in which no (subject_id, predicate) has two current
\* claims, the relationship claims of a pair carry pairwise distinct
\* revisions and a current claim has the highest revision of its pair, also
\* when a relationship insert or a claim insert has failed
C23_RevisionsDistinct ==
  (\A s \in DOMAIN entities, p \in ALLOWED_PREDICATES :
     Cardinality(CurrentOf(s, p)) <= 1)
    => \A c, d \in RelationshipClaims :
         (c # d /\ SamePair(claims[c], claims[d]))
           => /\ claims[c].revision # claims[d].revision
              /\ claims[c].is_current
                   => claims[d].revision < claims[c].revision

(***************************************************************************)
(* The validity interval of a relationship                                  *)
(***************************************************************************)
\* C24: an entity_relationships row has valid_to unset exactly when it is
\* active, every row has valid_from set, and an inactive row has
\* valid_from <= valid_to
C24_ValidityInterval ==
  \A k \in Rels :
    LET row == entity_relationships[k]
    IN  /\ row.is_active <=> row.valid_to = 0
        /\ row.valid_from # 0
        /\ ~row.is_active => row.valid_from <= row.valid_to

\* a row inserted on day 1 and deactivated on day 2 beside the active row
\* that superseded it, and a row deactivated on the day it was inserted
C24_Witness ==
  \E i, j, k \in Rels :
    /\ ~entity_relationships[i].is_active
    /\ entity_relationships[i].valid_from = 1
    /\ entity_relationships[i].valid_to = 2
    /\ ~entity_relationships[j].is_active
    /\ entity_relationships[j].valid_from = entity_relationships[j].valid_to
    /\ entity_relationships[k].is_active
    /\ entity_relationships[k].valid_from = 2

(***************************************************************************)
(* Supersession by two requests at a time                                   *)
(***************************************************************************)
\* a request that inserts a relationship leaves no other active row of the
\* pair among the rows the table held when the request read the active rows
\* of the pair
C25_Step ==
  \A r \in DOMAIN req :
    LET q == req[r]
    IN  ( /\ q.pc = "relinsert"
          /\ req'[r].pc = "relclaim"
          /\ Len(entity_relationships') = Len(entity_relationships) + 1 )
          => \A k \in 1..q.relBase :
               ( /\ entity_relationships'[k].subject_id = q.subjectId
                 /\ entity_relationships'[k].predicate = q.predicate )
                 => ~entity_relationships'[k].is_active

\* C25: the supersession sequence is not atomic.  When the store calls of
\* two requests interleave, a second active row of a (subject, predicate) is
\* left only by a request that read the active rows of the pair before the
\* other request inserted its row: every row that was in the table at that
\* read is inactive when the request inserts
C25_OverlapOnly == [][C25_Step]_vars

\* two requests asserted different objects for one (subject, predicate): the
\* pair has two active relationships and two current claims
C25_Witness ==
  \E j, k \in Rels, c, d \in RelationshipClaims :
    /\ j # k /\ c # d
    /\ SamePair(entity_relationships[j], entity_relationships[k])
    /\ entity_relationships[j].is_active
    /\ entity_relationships[k].is_active
    /\ entity_relationships[j].object_id # entity_relationships[k].object_id
    /\ entity_relationships[j].source_url # entity_relationships[k].source_url
    /\ SamePair(claims[c], entity_relationships[j])
    /\ SamePair(claims[c], claims[d])
    /\ claims[c].is_current /\ claims[d].is_current
    /\ claims[c].object_id # claims[d].object_id
    /\ \A r \in DOMAIN req : req[r].pc = "done"

(***************************************************************************)
(* The order of the steps of one request                                    *)
(***************************************************************************)
\* the step of POST a request is suspended in, in the order of the states
\* of the orchestrator
StepOf(q) ==
  CASE q.pc = "idle" -> 0
    [] q.pc = "dup" -> 1
    [] q.pc = "fetch" -> 2
    [] q.pc = "extract" -> 3
    [] q.pc = "insert" -> 4
    [] q.pc \in {"ent", "entinsert", "link", "parent"} -> 5
    [] q.pc = "first" -> 6
    [] q.pc \in {"tldedup", "tlinsert", "tlclaim"} ->
         IF q.ret = "first" THEN 6 ELSE 9
    [] q.pc \in {"summary", "sumgen", "sumupdate"} -> 7
    [] q.pc \in RelStage \cup {"relgate"} -> 8
    [] q.pc = "timeline" -> 9
    [] q.pc = "log" -> 10
    [] q.pc = "done" -> 11

\* the Article insert of the request has succeeded
ArticleStored(q) ==
  \E a \in DOMAIN articles :
    articles[a].id = q.articleId /\ articles[a].source_url = q.url

\* what the order asks of a step of a request, but for the step the
\* timelines rows are written in
C26_Order(r) ==
  LET q == req[r]
      wroteFact == \/ entities' # entities
                   \/ article_entities' # article_entities
                   \/ entity_relationships' # entity_relationships
                   \/ claims' # claims
                   \/ timelines' # timelines
  IN  /\ q.pc # "done" => StepOf(req'[r]) >= StepOf(q)
      /\ articles' # articles => StepOf(q) = 4
      /\ wroteFact => ArticleStored(q) /\ StepOf(q) \in 5..9
      /\ (entities' # entities \/ article_entities' # article_entities)
           => StepOf(q) \in {5, 7}
      /\ entity_relationships' # entity_relationships => StepOf(q) = 8
      /\ claims' # claims => StepOf(q) \in {6, 8, 9}
      /\ ingestion_logs' # ingestion_logs
           => /\ StepOf(q) = 10
              /\ req'[r].pc = "done"
              /\ ~wroteFact

C26_Step ==
  \A r \in DOMAIN req :
    req'[r] # req[r]
      => /\ C26_Order(r)
         /\ timelines' # timelines => StepOf(req[r]) \in {6, 9}

C26_StepAsClaimed ==
  \A r \in DOMAIN req :
    req'[r] # req[r]
      => /\ C26_Order(r)
         /\ timelines' # timelines => StepOf(req[r]) = 9

TypedIn(ents, type) ==
  {k \in DOMAIN ents :
     /\ Accepted(ents[k])
     /\ ents[k].type = type
     /\ EntitiesNamed(ents[k].name) # {}}

\* the stored entities of the first company of a list
FirstCompanyOf(ents) ==
  UNION {EntitiesNamed(ents[k].name) :
           k \in {j \in TypedIn(ents, "company") :
                    \A i \in TypedIn(ents, "company") : j <= i}}

\* the stored entities of the models of a list
ModelsOf(ents) ==
  UNION {EntitiesNamed(ents[k].name) : k \in TypedIn(ents, "model")}

\* the stored entities of the models of a list that precede every company
ModelsBeforeCompanies(ents) ==
  UNION {EntitiesNamed(ents[k].name) :
           k \in {j \in TypedIn(ents, "model") :
                    \A i \in TypedIn(ents, "company") : j < i}}

ParentChanged(e) == entities'[e].parent_id # entities[e].parent_id

C27_Step ==
  \A e \in DOMAIN entities :
    ParentChanged(e)
      => \E r \in DOMAIN req :
           /\ req[r].pc = "parent"
           /\ entities[e].parent_id = 0
           /\ e \in ModelsOf(req[r].parsedEntities)
           /\ entities'[e].parent_id \in FirstCompanyOf(req[r].parsedEntities)

C27_StepAsClaimed ==
  /\ C27_Step
  /\ \A r \in DOMAIN req, e \in DOMAIN entities :
       ( /\ req[r].pc = "parent"
         /\ e \in ModelsBeforeCompanies(req[r].parsedEntities) )
         => ~ParentChanged(e)

\* C27 as amended: within one batch the parent_id of an entity is set only
\* when it was unset, only for an entity the batch lists as a model, and only
\* to the first company accepted in that batch, wherever that company stands
\* in the extractor's order
C27_ParentIsFirstCompany == [][C27_Step]_vars

\* C27 as claimed: moreover a model listed before every company of the batch
\* keeps its parent_id
C27_ModelBeforeCompanyUnlinked == [][C27_StepAsClaimed]_vars

\* a batch listed a model and then a company, and the model has the company
\* for its parent
C27_Witness ==
  \E r \in DOMAIN req, m, c \in DOMAIN entities :
    /\ req[r].pc = "first"
    /\ Len(req[r].parsedEntities) = 2
    /\ req[r].parsedEntities[1].type = "model"
    /\ req[r].parsedEntities[2].type = "company"
    /\ m \in EntitiesNamed(req[r].parsedEntities[1].name)
    /\ c \in EntitiesNamed(req[r].parsedEntities[2].name)
    /\ m # c
    /\ entities[m].parent_id = c

(***************************************************************************)
(* The url of the log row                                                   *)
(***************************************************************************)
\* C28: the ingestion log row written for a request carries the url of the
\* request as source_url, whatever the logged outcome, an internal error
\* raised after the url was validated included
C28_LogCarriesUrl ==
  \A r \in DOMAIN req :
    (req[r].pc = "done" /\ Len(ingestion_logs) > req[r].logBase)
      => \A k \in (req[r].logBase + 1)..Len(ingestion_logs) :
           ingestion_logs[k].source_url = req[r].url

(***************************************************************************)
(* Scheduled articles                                                       *)
(***************************************************************************)
\* C29: after any sequence of article POST and PATCH calls every article
\* whose status is scheduled has a publish_at; a call that would leave a
\* scheduled article without one writes nothing
C29_ScheduledHasPublishAt ==
  \A a \in DOMAIN articles :
    articles[a].status = "scheduled" => articles[a].publish_at # 0

(***************************************************************************)
(* What a claim review writes                                               *)
(***************************************************************************)
\* the columns the review has written for a claim, or that it wrote none
ReviewOf(rv, c) ==
  IF c \in DOMAIN rv
    THEN rv[c]
    ELSE [verification_status |-> Null, updated_by |-> Null,
          updated_at |-> 0]

C30_Step ==
  reviewReq' # reviewReq
    => LET p == reviewReq'
           valid == /\ adminSecret \notin {Null, ""}
                    /\ p.cookie = adminSecret
                    /\ p.id # 0
                    /\ p.verification_status \in
                         {"auto_extracted", "human_reviewed", "verified",
                          "disputed"}
       IN  /\ store' = store
           /\ \A c \in DOMAIN claims :
                ReviewOf(claimReview', c) # ReviewOf(claimReview, c)
                  => /\ valid
                     /\ c = p.id
                     /\ claimReview'[c].verification_status =
                          p.verification_status
                     /\ claimReview'[c].updated_by = "admin"
                     /\ claimReview'[c].updated_at = today
           /\ DOMAIN claimReview' \subseteq DOMAIN claims
           /\ ~valid => claimReview' = claimReview /\ p.http \in {400, 401}
           /\ (valid /\ p.id \in DOMAIN claims)
                => p.id \in DOMAIN claimReview' /\ p.http = 200

\* C30: the claim review accepts only the statuses auto_extracted,
\* human_reviewed, verified and disputed and changes nothing but
\* verification_status, updated_by and updated_at of the one addressed
\* claim: every claim and relationship row keeps its is_current and
\* revision, and a request with another status, a missing id or an invalid
\* credential writes nothing
C30_ReviewFrame == [][C30_Step]_vars

\* the admin marked one claim of a superseded fact as verified and a later
\* request with a status outside the vocabulary was answered with 400; the
\* other claims have no review
C30_Witness ==
  \E c, d \in RelationshipClaims :
    /\ c # d
    /\ SamePair(claims[c], claims[d])
    /\ ~claims[c].is_current /\ claims[d].is_current
    /\ claims[c].revision < claims[d].revision
    /\ c \in DOMAIN claimReview
    /\ claimReview[c].verification_status = "verified"
    /\ d \notin DOMAIN claimReview
    /\ reviewReq.n = 2
    /\ reviewReq.http = 400
    /\ reviewReq.cookie = Secret
    /\ reviewReq.verification_status = "rejected"

=============================================================================
